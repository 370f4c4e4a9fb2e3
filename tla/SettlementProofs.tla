--------------------------- MODULE SettlementProofs ---------------------------
(***************************************************************************)
(* Settlement keeps its money invariant, hence its types, its cash ledger  *)
(* and the lifecycle of its payment rows, for any number of rows, refunds, *)
(* cancellations and concurrent requests; and, when requests do not        *)
(* overlap, the order's mirror, its stock and its way to the kitchen.      *)
(***************************************************************************)
EXTENDS Settlement, Sums, TLAPS

\* A request in a given phase carries the data of that phase.
LEMMA Carries ==
    ASSUME TypeOK, NEW s \in Slots
    PROVE  /\ req[s].at = "expire" =>
                 req[s] \in [at : {"expire"}, p : Payments, by : {"cashier", "public"}]
           /\ req[s].at \in {"gateway", "unwind"} =>
                 req[s] \in [at : {"gateway", "unwind"}, p : Payments]
           /\ req[s].at \in {"recheck", "insert"} =>
                 req[s] \in [at : {"recheck", "insert"}, stale : Payments \cup {0}]
           /\ req[s].at = "collect" =>
                 req[s] \in [at : {"collect"}, p : Payments, adv : BOOLEAN]
           /\ req[s].at = "callback" =>
                 req[s] \in [at : {"callback"}, p : Payments, res : Callbacks]
           /\ req[s].at = "callbackTx" =>
                 req[s] \in [at : {"callbackTx"}, p : Payments, res : Callbacks,
                             cur : PaymentStatus \ {"CANCELLED"}]
           /\ req[s].at = "move" =>
                 req[s] \in [at : {"move"}, from : OrderStatus, to : OrderStatus]
           /\ req[s].at = "askRefund" =>
                 req[s] \in [at : {"askRefund"}, amt : 1..Total, items : BOOLEAN]
           /\ req[s].at = "settleRefund" =>
                 req[s] \in [at : {"settleRefund"}, r : Refunds, had : BOOLEAN,
                             holds : BOOLEAN]
           /\ req[s].at \in {"weighCancel", "applyCancel"} =>
                 req[s] \in [at : {"weighCancel", "applyCancel"}, c : Cancels,
                             ready : BOOLEAN]
<1>1. req[s] \in Requests
  BY DEF TypeOK
<1> QED BY <1>1 DEF Requests, Idle


\* What updateMany leaves in the rows.
LEMMA SetStatusRows ==
    ASSUME TypeOK, NEW S, NEW st \in PaymentStatus
    PROVE  /\ SetStatus(S, st) \in [Payments -> PaymentRow]
           /\ \A p \in Payments :
                 SetStatus(S, st)[p] = IF p \in S THEN [pay[p] EXCEPT !.st = st]
                                                  ELSE pay[p]
<1>1. \A p \in Payments : /\ pay[p] \in PaymentRow
                          /\ [pay[p] EXCEPT !.st = st] \in PaymentRow
  BY DEF TypeOK, PaymentRow
<1> QED BY <1>1 DEF SetStatus

\* The rows the handlers write are payment rows.
LEMMA NewRows ==
    /\ NewRow("KASIR", "UNPAID") \in PaymentRow
    /\ NewRow("QRIS", "PENDING") \in PaymentRow
    /\ NewRow("VA", "PENDING") \in PaymentRow
    /\ NoPayment \in PaymentRow
BY DEF NewRow, NoPayment, PaymentRow, PaymentStatus

\* A new order's rows are as the lifecycle and the invariant want them.
LEMMA RowStart == Init => MoneyInv /\ \A p \in Payments : Row(p)!Start
<1> SUFFICES ASSUME Init PROVE MoneyInv /\ \A p \in Payments : Row(p)!Start
  OBVIOUS
<1>1. \A p \in Payments : pay[p] \in {NoPayment, NewRow("KASIR", "UNPAID")}
  BY DEF Init
<1>2. \A p \in Payments : Row(p)!Start
  BY <1>1 DEF Row!Start, Row!NoPayment, Row!NewRow, NoPayment, NewRow
<1>3. TypeOK
  BY BoundsAssumption, NewRows DEF Init, TypeOK, OrderStatus, PaymentStatus,
    NoRefund, RefundRow, CancelStatus, Requests, Idle, Payments, Refunds, Cancels
<1>4. RowShape
  BY <1>1 DEF RowShape, NoPayment, NewRow, CollectedStatuses
<1>5. RequestShape
  BY DEF Init, Idle, RequestShape
<1> QED BY <1>2, <1>3, <1>4, <1>5 DEF MoneyInv

\* Every row takes one step along its lifecycle, or none.
RowsStep == \A p \in Payments : Row(p)!Live \/ UNCHANGED pay[p]

\* One lifecycle step keeps the shape of the rows, and a row's kind.
LEMMA RowsKeepShape ==
    ASSUME TypeOK, RowShape, RowsStep, pay' \in [Payments -> PaymentRow]
    PROVE  /\ RowShape'
           /\ \A p \in Created : p \in Created' /\ pay'[p].method = pay[p].method
<1>1. ASSUME NEW p \in Payments
      PROVE  /\ IF pay'[p].method = "KASIR"
                  THEN /\ pay'[p].exp = "none"
                       /\ pay'[p].st \notin {"PENDING", "EXPIRED"}
                       /\ pay'[p].taken =
                            IF pay'[p].st \in CollectedStatuses THEN 1 ELSE 0
                  ELSE pay'[p].st \notin {"NONE", "UNPAID"} /\ pay'[p].taken = 0
             /\ pay[p].st # "NONE" => /\ pay'[p].st # "NONE"
                                      /\ pay'[p].method = pay[p].method
  <2>1. pay[p] \in PaymentRow /\ pay'[p] \in PaymentRow
    BY <1>1 DEF TypeOK
  <2>2. CASE UNCHANGED pay[p]
    BY <2>2 DEF RowShape, CollectedStatuses
  <2>3. CASE Row(p)!Live
    <3> USE DEF RowShape, CollectedStatuses, PaymentRow, Row!To, Row!IsCash
    <3>1. CASE Row(p)!Open
      BY <2>1, <3>1 DEF Row!Open, Row!NewRow
    <3>2. CASE Row(p)!Supersede
      BY <2>1, <3>2 DEF Row!Supersede
    <3>3. CASE Row(p)!Date
      BY <2>1, <3>3 DEF Row!Date
    <3>4. CASE Row(p)!Lose
      BY <2>1, <3>4 DEF Row!Lose
    <3>5. CASE Row(p)!Take
      BY <2>1, <3>5 DEF Row!Take
    <3>6. CASE Row(p)!Report
      BY <2>1, <3>6, CallbacksAssumption DEF Row!Report
    <3>7. CASE Row(p)!GiveBack
      BY <2>1, <3>7 DEF Row!GiveBack
    <3>8. CASE Row(p)!Void
      BY <2>1, <3>8 DEF Row!Void
    <3> QED BY <2>3, <3>1, <3>2, <3>3, <3>4, <3>5, <3>6, <3>7, <3>8 DEF Row!Live
  <2> QED BY <2>2, <2>3 DEF RowsStep
<1> QED BY <1>1 DEF RowShape, Created

-----------------------------------------------------------------------------
(* Each handler that writes rows takes every row through its lifecycle *)

\* createPayment at the counter supersedes online rows and may open a cashier row.
LEMMA CashIntentRows ==
    ASSUME MoneyInv, CreateCashIntent
    PROVE  pay' \in [Payments -> PaymentRow] /\ RowsStep
<1> DEFINE superseded == {p \in Payments : /\ pay[p].method = "QRIS"
                                           /\ pay[p].st \in {"PENDING", "FAILED", "EXPIRED"}}
           rest == SetStatus(superseded, "CANCELLED")
<1>1. /\ rest \in [Payments -> PaymentRow]
      /\ \A p \in Payments : rest[p] = IF p \in superseded
                                         THEN [pay[p] EXCEPT !.st = "CANCELLED"] ELSE pay[p]
  BY SetStatusRows DEF MoneyInv, PaymentStatus
<1>2. \A p \in Payments : \/ rest[p] = pay[p]
                          \/ /\ pay[p].method = "QRIS"
                             /\ pay[p].st \in {"PENDING", "FAILED", "EXPIRED"}
                             /\ rest[p] = [pay[p] EXCEPT !.st = "CANCELLED"]
  BY <1>1
<1> HIDE DEF rest, superseded
<1>3. CASE pay' = rest
  BY <1>1, <1>2, <1>3 DEF RowsStep, Row!Live, Row!Supersede, Row!To, Row!IsCash
<1>4. ASSUME NEW n \in Payments, IsNext(n),
             pay' = [rest EXCEPT ![n] = NewRow("KASIR", "UNPAID")]
      PROVE  pay' \in [Payments -> PaymentRow] /\ RowsStep
  <2>1. pay[n].st = "NONE"
    BY <1>4 DEF IsNext, Created, Payments
  <2> QED BY <1>1, <1>2, <1>4, <2>1, NewRows
          DEF RowsStep, Row!Live, Row!Open, Row!Supersede, Row!To, Row!IsCash,
              Row!NewRow, NewRow
<1> QED BY <1>3, <1>4 DEF CreateCashIntent, rest, superseded

\* A row that is opened next was not there.
LEMMA NextIsNew ==
    ASSUME NEW n \in Payments, IsNext(n)
    PROVE  pay[n].st = "NONE"
BY DEF IsNext, Created, Payments

\* createPayment for a virtual account opens an online row.
LEMMA VaIntentRows ==
    ASSUME MoneyInv, NEW s \in Slots, CreateVaIntent(s)
    PROVE  pay' \in [Payments -> PaymentRow] /\ RowsStep
<1>1. PICK n \in Payments : IsNext(n) /\ pay' = [pay EXCEPT ![n] = NewRow("VA", "PENDING")]
  BY DEF CreateVaIntent
<1> QED BY <1>1, NextIsNew, NewRows
        DEF MoneyInv, TypeOK, RowsStep, Row!Live, Row!Open, Row!NewRow, NewRow

\* createPayment for QRIS supersedes cashier rows and may open an online row.
LEMMA QrisIntentRows ==
    ASSUME MoneyInv, NEW s \in Slots, CreateQrisIntent(s)
    PROVE  pay' \in [Payments -> PaymentRow] /\ RowsStep
<1> DEFINE rest == SetStatus(UnpaidCash, "CANCELLED")
<1>1. /\ rest \in [Payments -> PaymentRow]
      /\ \A p \in Payments : rest[p] = IF p \in UnpaidCash
                                         THEN [pay[p] EXCEPT !.st = "CANCELLED"] ELSE pay[p]
  BY SetStatusRows DEF MoneyInv, PaymentStatus
<1>2. \A p \in Payments : \/ rest[p] = pay[p]
                          \/ /\ pay[p].method = "KASIR" /\ pay[p].st = "UNPAID"
                             /\ rest[p] = [pay[p] EXCEPT !.st = "CANCELLED"]
  BY <1>1 DEF UnpaidCash, Having
<1> HIDE DEF rest
<1>3. CASE pay' = rest
  BY <1>1, <1>2, <1>3 DEF RowsStep, Row!Live, Row!Supersede, Row!To, Row!IsCash
<1>4. ASSUME NEW n \in Payments, IsNext(n),
             pay' = [rest EXCEPT ![n] = NewRow("QRIS", "PENDING")]
      PROVE  pay' \in [Payments -> PaymentRow] /\ RowsStep
  <2>1. pay[n].st = "NONE"
    BY <1>4, NextIsNew
  <2> QED BY <1>1, <1>2, <1>4, <2>1, NewRows
          DEF RowsStep, Row!Live, Row!Open, Row!Supersede, Row!To, Row!IsCash,
              Row!NewRow, NewRow
<1> QED BY <1>3, <1>4 DEF CreateQrisIntent, ReuseQrisIntent, NewQrisIntent, rest

\* A PENDING row that expires, or that the gateway refused, is an online row.
LEMMA LosePending ==
    ASSUME MoneyInv, NEW S, NEW st \in {"EXPIRED", "FAILED"}, NEW lost,
           lost = SetStatus(S \cap {p \in Payments : pay[p].st = "PENDING"}, st)
    PROVE  /\ lost \in [Payments -> PaymentRow]
           /\ \A p \in Payments : \/ lost[p] = pay[p]
                                  \/ /\ pay[p].method # "KASIR"
                                     /\ pay[p].st = "PENDING"
                                     /\ lost[p] = [pay[p] EXCEPT !.st = st]
BY SetStatusRows DEF MoneyInv, PaymentStatus, RowShape

\* Expiring a stale row only loses a PENDING one.
LEMMA ExpireRows ==
    ASSUME MoneyInv, NEW s \in Slots, ExpireStale(s)
    PROVE  pay' \in [Payments -> PaymentRow] /\ RowsStep
<1>1. pay' = SetStatus({req[s].p} \cap {p \in Payments : pay[p].st = "PENDING"}, "EXPIRED")
  BY DEF ExpireStale
<1>2. /\ pay' \in [Payments -> PaymentRow]
      /\ \A p \in Payments : \/ pay'[p] = pay[p]
                             \/ /\ pay[p].method # "KASIR" /\ pay[p].st = "PENDING"
                                /\ pay'[p] = [pay[p] EXCEPT !.st = "EXPIRED"]
  BY <1>1, LosePending
<1> QED BY <1>2 DEF RowsStep, Row!Live, Row!Lose, Row!To, Row!IsCash

\* A gateway failure only loses a PENDING row.
LEMMA RejectRows ==
    ASSUME MoneyInv, NEW s \in Slots, GatewayRejects(s)
    PROVE  pay' \in [Payments -> PaymentRow] /\ RowsStep
<1>1. pay' = SetStatus({req[s].p} \cap {p \in Payments : pay[p].st = "PENDING"}, "FAILED")
  BY DEF GatewayRejects
<1>2. /\ pay' \in [Payments -> PaymentRow]
      /\ \A p \in Payments : \/ pay'[p] = pay[p]
                             \/ /\ pay[p].method # "KASIR" /\ pay[p].st = "PENDING"
                                /\ pay'[p] = [pay[p] EXCEPT !.st = "FAILED"]
  BY <1>1, LosePending
<1> QED BY <1>2 DEF RowsStep, Row!Live, Row!Lose, Row!To, Row!IsCash

\* The gateway's answer dates an online row.
LEMMA AcceptRows ==
    ASSUME MoneyInv, NEW s \in Slots, GatewayAccepts(s)
    PROVE  pay' \in [Payments -> PaymentRow] /\ RowsStep
<1>1. req[s].p \in Payments /\ pay[req[s].p].method # "KASIR"
  BY Carries DEF MoneyInv, GatewayAccepts, RequestShape
<1> QED BY <1>1 DEF MoneyInv, TypeOK, PaymentRow, GatewayAccepts, RowsStep, Row!Live,
                    Row!Date, Row!IsCash

\* Only an online row can lapse.
LEMMA LapseRows ==
    ASSUME MoneyInv, NEW q \in Payments, Lapse(q)
    PROVE  pay' \in [Payments -> PaymentRow] /\ RowsStep
BY DEF MoneyInv, TypeOK, RowShape, PaymentRow, Lapse, RowsStep, Row!Live, Row!Date,
       Row!IsCash

\* switchToCashier that finds a cashier row expires the stale one at most.
LEMMA RecheckRows ==
    ASSUME MoneyInv, NEW s \in Slots, SwitchRecheck(s)
    PROVE  pay' \in [Payments -> PaymentRow] /\ RowsStep
<1>1. CASE UNCHANGED pay
  BY <1>1 DEF MoneyInv, TypeOK, RowsStep
<1>2. CASE pay' = StaleExpired(s)
  <2>1. /\ pay' \in [Payments -> PaymentRow]
        /\ \A p \in Payments : \/ pay'[p] = pay[p]
                               \/ /\ pay[p].method # "KASIR" /\ pay[p].st = "PENDING"
                                  /\ pay'[p] = [pay[p] EXCEPT !.st = "EXPIRED"]
    BY <1>2, LosePending DEF StaleExpired
  <2> QED BY <2>1 DEF RowsStep, Row!Live, Row!Lose, Row!To, Row!IsCash
<1> QED BY <1>1, <1>2 DEF SwitchRecheck

\* switchToCashier expires the stale row and opens a cashier row.
LEMMA InsertRows ==
    ASSUME MoneyInv, NEW s \in Slots, SwitchInsert(s)
    PROVE  pay' \in [Payments -> PaymentRow] /\ RowsStep
<1>1. PICK n \in Payments :
         IsNext(n) /\ pay' = [StaleExpired(s) EXCEPT ![n] = NewRow("KASIR", "UNPAID")]
  BY DEF SwitchInsert
<1>2. pay[n].st = "NONE"
  BY <1>1, NextIsNew
<1>3. /\ StaleExpired(s) \in [Payments -> PaymentRow]
      /\ \A p \in Payments : \/ StaleExpired(s)[p] = pay[p]
                             \/ /\ pay[p].method # "KASIR" /\ pay[p].st = "PENDING"
                                /\ StaleExpired(s)[p] = [pay[p] EXCEPT !.st = "EXPIRED"]
  <2> DEFINE lost == SetStatus({req[s].stale} \cap {p \in Payments : pay[p].st = "PENDING"},
                               "EXPIRED")
  <2>1. /\ lost \in [Payments -> PaymentRow]
        /\ \A p \in Payments : \/ lost[p] = pay[p]
                               \/ /\ pay[p].method # "KASIR" /\ pay[p].st = "PENDING"
                                  /\ lost[p] = [pay[p] EXCEPT !.st = "EXPIRED"]
    BY SetStatusRows DEF MoneyInv, PaymentStatus, RowShape
  <2> QED BY <2>1 DEF StaleExpired
<1> QED BY <1>1, <1>2, <1>3, NewRows
        DEF RowsStep, Row!Live, Row!Open, Row!Lose, Row!To, Row!IsCash, Row!NewRow, NewRow

\* A collection takes an UNPAID cashier row, and its ledger entry is the first.
LEMMA CollectRows ==
    ASSUME MoneyInv, NEW s \in Slots, Collect(s)
    PROVE  pay' \in [Payments -> PaymentRow] /\ RowsStep
<1>1. req[s].p \in Payments /\ pay[req[s].p].method = "KASIR"
  BY Carries DEF MoneyInv, Collect, RequestShape
<1>2. pay[req[s].p].st = "UNPAID" => pay[req[s].p].taken = 0
  BY <1>1 DEF MoneyInv, RowShape, CollectedStatuses
<1>3. CASE pay[req[s].p].st # "UNPAID"
  BY <1>3 DEF MoneyInv, TypeOK, Collect, Taken, RowsStep
<1>4. CASE pay[req[s].p].st = "UNPAID"
  <2>1. pay' = [pay EXCEPT ![req[s].p] = [pay[req[s].p] EXCEPT !.st = "PAID", !.taken = 1]]
    BY <1>1, <1>2, <1>4 DEF Collect, Taken, MoneyInv, TypeOK, PaymentRow
  <2>2. [pay[req[s].p] EXCEPT !.st = "PAID", !.taken = 1] \in PaymentRow
    BY <1>1 DEF MoneyInv, TypeOK, PaymentRow, PaymentStatus
  <2>3. pay' \in [Payments -> PaymentRow]
    BY <1>1, <2>1, <2>2 DEF MoneyInv, TypeOK
  <2> QED BY <1>1, <1>4, <2>1, <2>3
          DEF MoneyInv, TypeOK, RowsStep, Row!Live, Row!Take, Row!IsCash
<1> QED BY <1>3, <1>4

\* A callback reports on an online row that was not superseded.
LEMMA CallbackRows ==
    ASSUME MoneyInv, NEW s \in Slots, CallbackApply(s)
    PROVE  pay' \in [Payments -> PaymentRow] /\ RowsStep
<1>1. /\ req[s].p \in Payments /\ req[s].res \in Callbacks
      /\ req[s].cur \in PaymentStatus \ {"CANCELLED"}
      /\ pay[req[s].p].method # "KASIR"
  BY Carries DEF MoneyInv, CallbackApply, RequestShape
<1>2. CASE pay[req[s].p].st # req[s].cur
  BY <1>2 DEF MoneyInv, TypeOK, CallbackApply, RowsStep
<1>3. CASE pay[req[s].p].st = req[s].cur
  <2>1. pay' = SetStatus({req[s].p}, req[s].res) /\ req[s].res \in PaymentStatus
    BY <1>1, <1>3, CallbacksAssumption DEF CallbackApply, PaymentStatus
  <2>2. /\ pay' \in [Payments -> PaymentRow]
        /\ \A p \in Payments : pay'[p] = IF p \in {req[s].p}
                                          THEN [pay[p] EXCEPT !.st = req[s].res] ELSE pay[p]
    BY <2>1, SetStatusRows DEF MoneyInv
  <2>3. pay[req[s].p].st \notin {"NONE", "CANCELLED"}
    BY <1>1, <1>3 DEF PaymentStatus
  <2> QED BY <1>1, <2>2, <2>3 DEF RowsStep, Row!Live, Row!Report, Row!To, Row!IsCash
<1> QED BY <1>2, <1>3

\* A full refund gives paid rows back, any other leaves rows alone.
LEMMA RefundRows ==
    ASSUME MoneyInv, NEW s \in Slots, ApproveRefund(s)
    PROVE  pay' \in [Payments -> PaymentRow] /\ RowsStep
<1> DEFINE paid == {p \in Payments : IsPaid(p)}
<1>1. pay' = pay \/ pay' = SetStatus(paid, "REFUNDED")
  BY DEF ApproveRefund
<1>2. CASE pay' = pay
  BY <1>2 DEF MoneyInv, TypeOK, RowsStep
<1>3. CASE pay' = SetStatus(paid, "REFUNDED")
  <2>1. /\ pay' \in [Payments -> PaymentRow]
        /\ \A p \in Payments : pay'[p] = IF p \in paid THEN [pay[p] EXCEPT !.st = "REFUNDED"]
                                                       ELSE pay[p]
    BY <1>3, SetStatusRows DEF MoneyInv, PaymentStatus
  <2> QED BY <2>1 DEF IsPaid, RowsStep, Row!Live, Row!GiveBack, Row!To
<1> QED BY <1>1, <1>2, <1>3

\* An approved cancellation voids the rows still open.
LEMMA CancelRows ==
    ASSUME MoneyInv, NEW s \in Slots, ApplyCancel(s)
    PROVE  pay' \in [Payments -> PaymentRow] /\ RowsStep
BY SetStatusRows
   DEF ApplyCancel, MoneyInv, PaymentStatus, RowsStep, Row!Live, Row!Void, Row!To

\* The handlers that write no payment row.
Quiet(s) ==
    \/ KasirQrisStart(s) \/ PublicQrisStart(s) \/ RecheckActive(s) \/ MirrorExpired(s)
    \/ MirrorGatewayFailure(s) \/ SwitchStart(s) \/ CollectStart(s) \/ CallbackStart(s)
    \/ CallbackRead(s) \/ MoveStart(s) \/ Move(s) \/ RefundStart(s) \/ InsertRefund(s)
    \/ ReadForRefund(s) \/ CancelStart(s) \/ InsertCancel(s) \/ DecideCancelStart(s)
    \/ WeighCancel(s) \/ GiveUp(s)

\* They write none.
LEMMA QuietKeepsRows ==
    ASSUME NEW s \in Slots, Quiet(s)
    PROVE  UNCHANGED pay
BY DEF Quiet, KasirQrisStart, PublicQrisStart, RecheckActive, MirrorExpired,
   MirrorGatewayFailure, SwitchStart, CollectStart, CallbackStart, CallbackRead,
   MoveStart, Move, RefundStart, InsertRefund, ReadForRefund, CancelStart, InsertCancel,
   DecideCancelStart, WeighCancel, GiveUp, MoneyUnchanged

\* Leaving the rows alone is within their lifecycle.
LEMMA QuietRows ==
    ASSUME MoneyInv, UNCHANGED pay
    PROVE  pay' \in [Payments -> PaymentRow] /\ RowsStep
BY DEF MoneyInv, TypeOK, RowsStep

\* Every step of the order takes each of its rows along the lifecycle.
LEMMA NextRows ==
    ASSUME MoneyInv, [Next]_vars
    PROVE  pay' \in [Payments -> PaymentRow] /\ RowsStep
<1>1. CASE CreateCashIntent
  BY <1>1, CashIntentRows
<1>2. ASSUME NEW p \in Payments, Lapse(p)
      PROVE  pay' \in [Payments -> PaymentRow] /\ RowsStep
  BY <1>2, LapseRows
<1>3. ASSUME NEW s \in Slots, Quiet(s) PROVE UNCHANGED pay
  BY <1>3, QuietKeepsRows
<1>4. CASE UNCHANGED vars
  BY <1>4, QuietRows DEF vars
<1>5. ASSUME NEW s \in Slots, CashierAndGateway(s) \/ KitchenAndDesks(s) \/ GiveUp(s)
      PROVE  pay' \in [Payments -> PaymentRow] /\ RowsStep
  <2>1. CASE Quiet(s)
    BY <1>3, <2>1, QuietRows
  <2> QED BY <1>5, <2>1, VaIntentRows, QrisIntentRows, ExpireRows, AcceptRows, RejectRows,
             RecheckRows, InsertRows, CollectRows, CallbackRows, RefundRows, CancelRows
          DEF CashierAndGateway, KitchenAndDesks, Quiet
<1>6. ASSUME NEW r \in Refunds, RejectRefund(r)
      PROVE  pay' \in [Payments -> PaymentRow] /\ RowsStep
  BY <1>6, QuietRows DEF RejectRefund
<1>7. ASSUME NEW c \in Cancels, RejectCancel(c)
      PROVE  pay' \in [Payments -> PaymentRow] /\ RowsStep
  BY <1>7, QuietRows DEF RejectCancel
<1> QED BY <1>1, <1>2, <1>4, <1>5, <1>6, <1>7 DEF Next

-----------------------------------------------------------------------------
(* Types *)

\* A request sent to a phase is a request.
LEMMA GotoType ==
    ASSUME TypeOK, NEW s \in Slots, NEW r \in Requests, Goto(s, r)
    PROVE  req' \in [Slots -> Requests]
BY DEF TypeOK, Goto

\* Where each handler's request goes next is a request.
LEMMA NextRequest ==
    ASSUME MoneyInv, NEW s \in Slots,
           CashierAndGateway(s) \/ KitchenAndDesks(s) \/ GiveUp(s)
    PROVE  req' \in [Slots -> Requests]
<1> USE DEF MoneyInv, Requests, Idle
<1>1. CASE CreateVaIntent(s)
  BY <1>1, GotoType DEF CreateVaIntent
<1>2. CASE CreateQrisIntent(s)
  BY <1>2, GotoType DEF CreateQrisIntent, ReuseQrisIntent, NewQrisIntent
<1>3. CASE KasirQrisStart(s)
  BY <1>3, GotoType DEF KasirQrisStart, Created
<1>4. CASE PublicQrisStart(s)
  BY <1>4, GotoType DEF PublicQrisStart
<1>5. CASE ExpireStale(s) \/ RecheckActive(s) \/ MirrorExpired(s)
  BY <1>5, GotoType DEF ExpireStale, RecheckActive, MirrorExpired
<1>6. CASE GatewayAccepts(s) \/ GatewayRejects(s) \/ MirrorGatewayFailure(s)
  BY <1>6, GotoType, Carries DEF GatewayAccepts, GatewayRejects, MirrorGatewayFailure
<1>7. CASE SwitchStart(s)
  BY <1>7, GotoType DEF SwitchStart, Created
<1>8. CASE SwitchRecheck(s) \/ SwitchInsert(s)
  BY <1>8, GotoType, Carries DEF SwitchRecheck, SwitchInsert
<1>9. CASE CollectStart(s)
  BY <1>9, GotoType DEF CollectStart, EntersKitchen, Created
<1>10. CASE Collect(s) \/ CallbackApply(s)
  BY <1>10, GotoType DEF Collect, CallbackApply
<1>11. CASE CallbackStart(s)
  BY <1>11, GotoType DEF CallbackStart, Created
<1>12. CASE CallbackRead(s)
  <2>1. req[s].p \in Payments /\ req[s].res \in Callbacks
    BY <1>12, Carries DEF CallbackRead
  <2>2. pay[req[s].p].st \in PaymentStatus
    BY <1>12, <2>1, Carries DEF CallbackRead, RequestShape, RowShape, TypeOK, PaymentRow
  <2> QED BY <1>12, <2>1, <2>2, GotoType DEF CallbackRead, Superseded
<1>13. CASE MoveStart(s) \/ Move(s)
  <2>1. ValidStatusTransitions[status] \subseteq OrderStatus
    BY DEF TypeOK, OrderStatus, ValidStatusTransitions
  <2> QED BY <1>13, <2>1, GotoType DEF MoveStart, Move, TypeOK
<1>14. CASE RefundStart(s) \/ InsertRefund(s)
  BY <1>14, GotoType DEF RefundStart, InsertRefund
<1>15. CASE ReadForRefund(s) \/ ApproveRefund(s)
  <2>1. ASSUME NEW r \in Refunds
        PROVE  [at |-> "settleRefund", r |-> r, had |-> TotalPaid > 0,
                holds |-> NetCollected > refund[r].amt] \in Requests
    OBVIOUS
  <2> QED BY <1>15, <2>1, GotoType DEF ReadForRefund, ApproveRefund
<1>16. CASE CancelStart(s) \/ InsertCancel(s) \/ DecideCancelStart(s)
  <2>1. ASSUME NEW c \in Cancels
        PROVE  [at |-> "weighCancel", c |-> c, ready |-> StockTaken] \in Requests
    BY DEF StockTaken
  <2> QED BY <1>16, <2>1, GotoType DEF CancelStart, InsertCancel, DecideCancelStart
<1>17. CASE WeighCancel(s) \/ ApplyCancel(s) \/ GiveUp(s)
  BY <1>17, GotoType, Carries DEF WeighCancel, ApplyCancel, GiveUp
<1> QED BY <1>1, <1>2, <1>3, <1>4, <1>5, <1>6, <1>7, <1>8, <1>9, <1>10, <1>11, <1>12,
           <1>13, <1>14, <1>15, <1>16, <1>17
        DEF CashierAndGateway, KitchenAndDesks

\* The order's own columns and its table.
OrderTyped == status \in OrderStatus /\ payStatus \in PaymentStatus
              /\ table \in {"OCCUPIED", "AVAILABLE"}

\* The refund, cancellation and stock rows.
DesksTyped == /\ refund \in [Refunds -> RefundRow]
              /\ cancel \in [Cancels -> CancelStatus]
              /\ stock \in [out : Nat, back : Nat]

\* Every request's step keeps the order and its table well-typed.
LEMMA NextOrder ==
    ASSUME MoneyInv, NEW s \in Slots,
           CashierAndGateway(s) \/ KitchenAndDesks(s) \/ GiveUp(s)
    PROVE  OrderTyped'
<1> USE DEF MoneyInv, TypeOK, OrderTyped, OrderUnchanged, MoneyUnchanged
<1>1. CASE \/ CreateVaIntent(s) \/ CreateQrisIntent(s) \/ KasirQrisStart(s)
           \/ PublicQrisStart(s) \/ ExpireStale(s) \/ RecheckActive(s) \/ MirrorExpired(s)
           \/ GatewayAccepts(s) \/ GatewayRejects(s) \/ MirrorGatewayFailure(s)
  BY <1>1 DEF CreateVaIntent, CreateQrisIntent, ReuseQrisIntent, NewQrisIntent,
     KasirQrisStart, PublicQrisStart, ExpireStale, RecheckActive, MirrorExpired,
     GatewayAccepts, GatewayRejects, MirrorGatewayFailure, UnlessPaid, PaymentStatus
<1>2. CASE \/ SwitchStart(s) \/ SwitchRecheck(s) \/ SwitchInsert(s) \/ CollectStart(s)
           \/ Collect(s) \/ CallbackStart(s) \/ CallbackRead(s) \/ GiveUp(s)
  BY <1>2 DEF SwitchStart, SwitchRecheck, SwitchInsert, CollectStart, Collect,
     CallbackStart, CallbackRead, GiveUp, UnlessPaid, PaymentStatus, OrderStatus
<1>3. CASE CallbackApply(s)
  <2>1. req[s].res \in PaymentStatus
    BY <1>3, Carries, CallbacksAssumption DEF CallbackApply, PaymentStatus
  <2> QED BY <1>3, <2>1 DEF CallbackApply
<1>4. CASE Move(s)
  <2>1. req[s].to \in OrderStatus
    BY <1>4, Carries DEF Move
  <2> QED BY <1>4, <2>1 DEF Move, FreeTableIf
<1>5. CASE \/ MoveStart(s) \/ RefundStart(s) \/ InsertRefund(s) \/ ReadForRefund(s)
           \/ CancelStart(s) \/ InsertCancel(s) \/ DecideCancelStart(s) \/ WeighCancel(s)
  BY <1>5 DEF MoveStart, RefundStart, InsertRefund, ReadForRefund, CancelStart,
     InsertCancel, DecideCancelStart, WeighCancel
<1>6. CASE ApproveRefund(s) \/ ApplyCancel(s)
  BY <1>6 DEF ApproveRefund, ApplyCancel, MirrorAfterRefund, FreeTableIf, OrderStatus, PaymentStatus
<1> QED BY <1>1, <1>2, <1>3, <1>4, <1>5, <1>6 DEF CashierAndGateway, KitchenAndDesks

\* Every request's step keeps refunds, cancellations and stock well-typed.
LEMMA NextDesks ==
    ASSUME MoneyInv, NEW s \in Slots,
           CashierAndGateway(s) \/ KitchenAndDesks(s) \/ GiveUp(s)
    PROVE  DesksTyped'
<1> USE DEF MoneyInv, TypeOK, DesksTyped, OrderUnchanged, MoneyUnchanged
<1>1. CASE CashierAndGateway(s) \/ GiveUp(s)
  BY <1>1 DEF CashierAndGateway, CreateVaIntent, CreateQrisIntent, KasirQrisStart,
     PublicQrisStart, ExpireStale, RecheckActive, MirrorExpired, GatewayAccepts,
     GatewayRejects, MirrorGatewayFailure, SwitchStart, SwitchRecheck, SwitchInsert,
     CollectStart, Collect, CallbackStart, CallbackRead, CallbackApply, GiveUp
<1>2. CASE \/ MoveStart(s) \/ RefundStart(s) \/ ReadForRefund(s) \/ CancelStart(s)
           \/ DecideCancelStart(s) \/ WeighCancel(s)
  BY <1>2 DEF MoveStart, RefundStart, ReadForRefund, CancelStart, DecideCancelStart,
     WeighCancel
<1>3. CASE Move(s)
  BY <1>3, BoundsAssumption DEF Move
<1>4. CASE InsertRefund(s)
  <2>1. req[s].amt \in 1..Total /\ req[s].items \in BOOLEAN
    BY <1>4, Carries DEF InsertRefund
  <2>2. [st |-> "PENDING", amt |-> req[s].amt, items |-> req[s].items, back |-> 0]
          \in RefundRow
    BY <2>1, BoundsAssumption DEF RefundRow
  <2> QED BY <1>4, <2>2 DEF InsertRefund
<1>5. CASE ApproveRefund(s)
  <2>1. req[s].r \in Refunds /\ refund[req[s].r] \in RefundRow
    BY <1>5, Carries DEF ApproveRefund
  <2> DEFINE old == refund[req[s].r]
  <2>2. old.back \in Nat /\ old.back + 1 \in Nat
    BY <2>1 DEF RefundRow
  <2>3. refund' \in [Refunds -> RefundRow]
    <3> DEFINE n == old.back + IF req[s].had THEN 1 ELSE 0
    <3>1. n \in Nat
      BY <2>2
    <3>2. refund' = [refund EXCEPT ![req[s].r] = [old EXCEPT !.st = "APPROVED", !.back = n]]
      BY <1>5, <2>1 DEF ApproveRefund
    <3> HIDE DEF n
    <3>3. [old EXCEPT !.st = "APPROVED", !.back = n] \in RefundRow
      BY <2>1, <3>1 DEF RefundRow
    <3> QED BY <3>2, <3>3, <2>1
  <2>4. refund[req[s].r].amt \in Nat
    BY <2>1, BoundsAssumption DEF RefundRow
  <2>5. stock' \in [out : Nat, back : Nat]
    BY <1>5, <2>4 DEF ApproveRefund, Restore
  <2> QED BY <1>5, <2>3, <2>5 DEF ApproveRefund
<1>6. CASE InsertCancel(s)
  BY <1>6 DEF InsertCancel, CancelStatus
<1>7. CASE ApplyCancel(s)
  <2>1. cancel' \in [Cancels -> CancelStatus]
    BY <1>7 DEF ApplyCancel, CancelStatus
  <2>2. stock' \in [out : Nat, back : Nat]
    BY <1>7, BoundsAssumption DEF ApplyCancel, Restore
  <2> QED BY <1>7, <2>1, <2>2 DEF ApplyCancel
<1> QED BY <1>1, <1>2, <1>3, <1>4, <1>5, <1>6, <1>7 DEF KitchenAndDesks

\* Every step keeps the whole state well-typed.
LEMMA NextTyped ==
    ASSUME MoneyInv, [Next]_vars
    PROVE  TypeOK'
<1>1. pay' \in [Payments -> PaymentRow]
  BY NextRows
<1>2. CASE UNCHANGED vars
  BY <1>2 DEF vars, MoneyInv, TypeOK
<1>3. CASE CreateCashIntent
  BY <1>1, <1>3 DEF CreateCashIntent, OrderUnchanged, UnlessPaid, PaymentStatus, MoneyInv,
     TypeOK
<1>4. ASSUME NEW p \in Payments, Lapse(p) PROVE TypeOK'
  BY <1>1, <1>4 DEF Lapse, OrderUnchanged, MoneyInv, TypeOK
<1>5. ASSUME NEW r \in Refunds, RejectRefund(r) PROVE TypeOK'
  BY <1>5 DEF RejectRefund, MoneyInv, TypeOK, RefundRow
<1>6. ASSUME NEW c \in Cancels, RejectCancel(c) PROVE TypeOK'
  BY <1>6 DEF RejectCancel, MoneyInv, TypeOK, CancelStatus
<1>7. ASSUME NEW s \in Slots, CashierAndGateway(s) \/ KitchenAndDesks(s) \/ GiveUp(s)
      PROVE  TypeOK'
  BY <1>1, <1>7, NextRequest, NextOrder, NextDesks DEF OrderTyped, DesksTyped, TypeOK
<1> QED BY <1>2, <1>3, <1>4, <1>5, <1>6, <1>7 DEF Next

-----------------------------------------------------------------------------
(* A request holds the kind of row it was started for *)

\* A request that did not move still holds the kind of row it was started for.
LEMMA OtherRequests ==
    ASSUME MoneyInv, [Next]_vars, NEW t \in Slots, req'[t] = req[t]
    PROVE  /\ req'[t].at \in {"gateway", "callback", "callbackTx"}
                => pay'[req'[t].p].method # "KASIR"
           /\ req'[t].at = "collect"
                => req'[t].p \in Created' /\ pay'[req'[t].p].method = "KASIR"
<1>1. /\ pay' \in [Payments -> PaymentRow]
      /\ \A p \in Created : p \in Created' /\ pay'[p].method = pay[p].method
  BY NextRows, RowsKeepShape DEF MoneyInv
<1>2. req[t].at \in {"gateway", "callback", "callbackTx"} => req[t].p \in Created
  BY Carries DEF MoneyInv, RequestShape, RowShape, Created
<1> QED BY <1>1, <1>2 DEF MoneyInv, RequestShape

\* Every step leaves requests holding the kind of row they were started for.
LEMMA NextHolds ==
    ASSUME MoneyInv, [Next]_vars
    PROVE  RequestShape'
<1>1. /\ pay' \in [Payments -> PaymentRow]
      /\ \A p \in Created : p \in Created' /\ pay'[p].method = pay[p].method
  BY NextRows, RowsKeepShape DEF MoneyInv
<1>2. CASE UNCHANGED req
  BY <1>2, OtherRequests DEF RequestShape
<1>3. ASSUME NEW s \in Slots, CashierAndGateway(s) \/ KitchenAndDesks(s) \/ GiveUp(s)
      PROVE  RequestShape'
  <2>1. \A t \in Slots : t # s => req'[t] = req[t]
    BY <1>3 DEF CashierAndGateway, KitchenAndDesks, GiveUp, CreateVaIntent, CreateQrisIntent,
       ReuseQrisIntent, NewQrisIntent, KasirQrisStart, PublicQrisStart, ExpireStale,
       RecheckActive, MirrorExpired, GatewayAccepts, GatewayRejects, MirrorGatewayFailure,
       SwitchStart, SwitchRecheck, SwitchInsert, CollectStart, Collect, CallbackStart,
       CallbackRead, CallbackApply, MoveStart, Move, RefundStart, InsertRefund,
       ReadForRefund, ApproveRefund, CancelStart, InsertCancel, DecideCancelStart,
       WeighCancel, ApplyCancel, Goto, MoneyInv, TypeOK
  <2>2. /\ req'[s].at \in {"gateway", "callback", "callbackTx"}
             => pay'[req'[s].p].method # "KASIR"
        /\ req'[s].at = "collect"
             => req'[s].p \in Created' /\ pay'[req'[s].p].method = "KASIR"
    <3> USE DEF MoneyInv, TypeOK, Goto
    <3>1. CASE CreateVaIntent(s)
      BY <3>1, <1>1 DEF CreateVaIntent, NewRow
    <3>2. CASE CreateQrisIntent(s)
      <4>1. CASE ReuseQrisIntent(s)
        BY <4>1 DEF ReuseQrisIntent, Idle
      <4>2. CASE NewQrisIntent(s)
        <5>1. PICK n \in Payments :
                 /\ pay' = [SetStatus(UnpaidCash, "CANCELLED")
                               EXCEPT ![n] = NewRow("QRIS", "PENDING")]
                 /\ Goto(s, [at |-> "gateway", p |-> n])
          BY <4>2 DEF NewQrisIntent
        <5>2. pay'[n].method = "QRIS"
          BY <5>1 DEF NewRow, SetStatus
        <5> QED BY <5>1, <5>2
      <4> QED BY <3>2, <4>1, <4>2 DEF CreateQrisIntent
    <3>3. CASE CollectStart(s)
      BY <3>3, <1>1 DEF CollectStart, Collectible, Created
    <3>4. CASE CallbackStart(s)
      BY <3>4, <1>1 DEF CallbackStart, RowShape, Created
    <3>5. CASE CallbackRead(s)
      <4>1. pay[req[s].p].method # "KASIR" /\ req[s].p \in Payments
        BY <3>5, Carries DEF CallbackRead, RequestShape
      <4> QED BY <3>5, <4>1 DEF CallbackRead, Idle
    <3>6. CASE \/ KasirQrisStart(s) \/ PublicQrisStart(s) \/ ExpireStale(s)
                \/ RecheckActive(s) \/ MirrorExpired(s) \/ SwitchStart(s)
      <4>1. req'[s].at \in {"idle", "expire", "check", "mirror", "qris", "recheck"}
        <5>1. CASE KasirQrisStart(s)
          BY <5>1 DEF KasirQrisStart
        <5>2. CASE PublicQrisStart(s)
          <6>1. \/ \E p \in Payments :
                      Goto(s, [at |-> "expire", p |-> p, by |-> "public"])
                \/ Goto(s, [at |-> "qris"])
            BY <5>2 DEF PublicQrisStart
          <6>2. CASE Goto(s, [at |-> "qris"])
            BY <6>2
          <6>3. ASSUME NEW p \in Payments,
                       Goto(s, [at |-> "expire", p |-> p, by |-> "public"])
                PROVE  req'[s].at = "expire"
            BY <6>3
          <6> QED BY <6>1, <6>2, <6>3
        <5>3. CASE ExpireStale(s)
          BY <5>3 DEF ExpireStale
        <5>4. CASE RecheckActive(s) \/ MirrorExpired(s)
          BY <5>4 DEF RecheckActive, MirrorExpired, Idle
        <5>5. CASE SwitchStart(s)
          BY <5>5 DEF SwitchStart
        <5> QED BY <3>6, <5>1, <5>2, <5>3, <5>4, <5>5
      <4> QED BY <4>1
    <3>7. CASE \/ GatewayAccepts(s) \/ GatewayRejects(s) \/ MirrorGatewayFailure(s)
                \/ SwitchRecheck(s) \/ SwitchInsert(s) \/ Collect(s) \/ CallbackApply(s)
      BY <3>7 DEF GatewayAccepts, GatewayRejects, MirrorGatewayFailure, SwitchRecheck,
         SwitchInsert, Collect, CallbackApply, Idle
    <3>8. CASE \/ MoveStart(s) \/ Move(s) \/ RefundStart(s) \/ InsertRefund(s)
                \/ ReadForRefund(s) \/ ApproveRefund(s) \/ GiveUp(s)
      BY <3>8 DEF MoveStart, Move, RefundStart, InsertRefund, ReadForRefund, ApproveRefund,
         GiveUp, Idle
    <3>9. CASE \/ CancelStart(s) \/ InsertCancel(s) \/ DecideCancelStart(s) \/ ApplyCancel(s)
      <4>1. CASE InsertCancel(s) \/ ApplyCancel(s)
        <5>1. Goto(s, Idle)
          BY <4>1 DEF InsertCancel, ApplyCancel
        <5> QED BY <5>1 DEF Idle
      <4>3. CASE CancelStart(s)
        BY <4>3 DEF CancelStart
      <4>2. CASE DecideCancelStart(s)
        BY <4>2 DEF DecideCancelStart
      <4> QED BY <3>9, <4>1, <4>2, <4>3
    <3>10. CASE WeighCancel(s)
      <4>1. req'[s].at = "applyCancel"
        BY <3>10, Carries DEF WeighCancel
      <4> QED BY <4>1
    <3> QED BY <1>3, <3>1, <3>2, <3>3, <3>4, <3>5, <3>6, <3>7, <3>8, <3>9, <3>10
            DEF CashierAndGateway, KitchenAndDesks
  <2> QED BY <2>1, <2>2, <1>3, OtherRequests DEF RequestShape
<1> QED BY <1>2, <1>3 DEF Next, CreateCashIntent, Lapse, RejectRefund, RejectCancel, vars

-----------------------------------------------------------------------------
(* The theorems *)

\* The rows' shape and the requests' hold on them are inductive.
LEMMA NextMoney ==
    ASSUME MoneyInv, [Next]_vars
    PROVE  MoneyInv' /\ RowsStep
<1>1. pay' \in [Payments -> PaymentRow] /\ RowsStep
  BY NextRows
<1>2. RowShape'
  BY <1>1, RowsKeepShape DEF MoneyInv
<1> QED BY <1>1, <1>2, NextTyped, NextHolds DEF MoneyInv

\* The money invariant of every run of the order.
THEOREM MoneyInvariant == Spec => []MoneyInv
<1>1. Init => MoneyInv
  BY RowStart
<1>2. MoneyInv /\ [Next]_vars => MoneyInv'
  BY NextMoney
<1> QED BY <1>1, <1>2, PTL DEF Spec

\* Every handler keeps the order, its rows, its desks and the requests in flight
\* well-typed, for any number of rows and of concurrent requests.
THEOREM TypeCorrect == Spec => []TypeOK
<1>1. MoneyInv => TypeOK
  BY DEF MoneyInv
<1> QED BY <1>1, MoneyInvariant, PTL

\* The cash ledger agrees with the payment rows, however many cashiers collect,
\* switch and cancel at the same time: a collected cashier row has exactly one
\* entry, any other row none.
THEOREM CashBookCorrect == Spec => []CashBookMatchesRows
<1>1. MoneyInv => CashBookMatchesRows
  BY DEF MoneyInv, RowShape, CashBookMatchesRows, CollectedStatuses
<1> QED BY <1>1, MoneyInvariant, PTL

\* The order's rows implement the lifecycle of one payment row: every step of
\* every handler takes each row one step along it, or leaves it alone.
THEOREM RowsImplementLifecycle == Spec => RowsKeepLifecycle
<1>1. Init => \A p \in Payments : Row(p)!Start
  BY RowStart
<1>2. MoneyInv /\ [Next]_vars => [RowsStep]_vars
  BY NextMoney
<1>3. Spec => [][RowsStep]_vars
  BY <1>2, MoneyInvariant, PTL DEF Spec
<1>4. (\A p \in Payments : Row(p)!Start) /\ [][RowsStep]_vars => RowsKeepLifecycle
  BY DEF RowsKeepLifecycle, RowsStep
<1> QED BY <1>1, <1>3, <1>4 DEF Spec

\* A superseded payment row is never revived, by a callback, a retry, a refund or
\* a cancellation.
THEOREM CancelledRowsStay == Spec => CancelledRowStays
<1> DEFINE Kept == \A p \in Payments : pay[p].st = "CANCELLED" => pay'[p].st = "CANCELLED"
<1>1. MoneyInv /\ [Next]_vars => [Kept]_vars
  <2> SUFFICES ASSUME MoneyInv, [Next]_vars, NEW p \in Payments, pay[p].st = "CANCELLED"
               PROVE  pay'[p].st = "CANCELLED"
    OBVIOUS
  <2>1. Row(p)!Live \/ UNCHANGED pay[p]
    BY NextMoney DEF RowsStep
  <2>2. pay[p] \in PaymentRow
    BY DEF MoneyInv, TypeOK
  <2> QED BY <2>1, <2>2
          DEF PaymentRow, Row!Live, Row!Open, Row!Supersede, Row!Date, Row!Lose, Row!Take,
              Row!Report, Row!GiveBack, Row!Void, Row!To
<1>2. Spec => [][Kept]_vars
  BY <1>1, MoneyInvariant, PTL DEF Spec
<1> QED BY <1>2 DEF CancelledRowStays

-----------------------------------------------------------------------------
(* The refund and cancellation desks *)

\* Only the desks write refunds and cancellation requests.
LEMMA DeskWriters ==
    ASSUME [Next]_vars
    PROVE  /\ \/ UNCHANGED refund
              \/ \E s \in Slots : InsertRefund(s) \/ ApproveRefund(s)
              \/ \E r \in Refunds : RejectRefund(r)
           /\ \/ UNCHANGED cancel
              \/ \E s \in Slots : InsertCancel(s) \/ ApplyCancel(s)
              \/ \E c \in Cancels : RejectCancel(c)
<1> USE DEF OrderUnchanged, MoneyUnchanged
<1>1. CASE UNCHANGED vars
  BY <1>1 DEF vars
<1>2. CASE CreateCashIntent
  BY <1>2 DEF CreateCashIntent
<1>3. ASSUME NEW p \in Payments, Lapse(p) PROVE UNCHANGED <<refund, cancel>>
  BY <1>3 DEF Lapse
<1>4. ASSUME NEW s \in Slots, CashierAndGateway(s) \/ GiveUp(s)
      PROVE  UNCHANGED <<refund, cancel>>
  BY <1>4 DEF CashierAndGateway, CreateVaIntent, CreateQrisIntent, KasirQrisStart,
     PublicQrisStart, ExpireStale, RecheckActive, MirrorExpired, GatewayAccepts,
     GatewayRejects, MirrorGatewayFailure, SwitchStart, SwitchRecheck, SwitchInsert,
     CollectStart, Collect, CallbackStart, CallbackRead, CallbackApply, GiveUp
<1>5. ASSUME NEW s \in Slots, KitchenAndDesks(s)
      PROVE  /\ UNCHANGED refund \/ InsertRefund(s) \/ ApproveRefund(s)
             /\ UNCHANGED cancel \/ InsertCancel(s) \/ ApplyCancel(s)
  BY <1>5 DEF KitchenAndDesks, MoveStart, Move, RefundStart, InsertRefund, ReadForRefund,
     ApproveRefund, CancelStart, InsertCancel, DecideCancelStart, WeighCancel, ApplyCancel
<1>6. ASSUME NEW r \in Refunds, RejectRefund(r) PROVE UNCHANGED cancel
  BY <1>6 DEF RejectRefund
<1>7. ASSUME NEW c \in Cancels, RejectCancel(c) PROVE UNCHANGED refund
  BY <1>7 DEF RejectCancel
<1> QED BY <1>1, <1>2, <1>3, <1>4, <1>5, <1>6, <1>7 DEF Next

\* What a step does to the refunds: one is inserted when none waits, or decided.
LEMMA RefundStep ==
    ASSUME TypeOK, [Next]_vars
    PROVE  \/ UNCHANGED refund
           \/ /\ OpenRefunds = {}
              /\ \E r \in Refunds, new \in RefundRow :
                    /\ new.st = "PENDING" /\ new.back = 0
                    /\ refund' = [refund EXCEPT ![r] = new]
           \/ \E r \in Refunds, new \in RefundRow :
                 /\ refund[r].st = "PENDING"
                 /\ \/ new.st = "REJECTED" /\ new.back = refund[r].back
                    \/ new.st = "APPROVED" /\ new.back \in {refund[r].back, refund[r].back + 1}
                 /\ refund' = [refund EXCEPT ![r] = new]
<1>1. ASSUME NEW s \in Slots, InsertRefund(s)
      PROVE  /\ OpenRefunds = {}
             /\ \E r \in Refunds, new \in RefundRow :
                   /\ new.st = "PENDING" /\ new.back = 0
                   /\ refund' = [refund EXCEPT ![r] = new]
  <2> DEFINE new == [st |-> "PENDING", amt |-> req[s].amt, items |-> req[s].items,
                     back |-> 0]
  <2>1. req[s].amt \in 1..Total /\ req[s].items \in BOOLEAN
    BY <1>1, Carries DEF InsertRefund
  <2>2. new \in RefundRow
    BY <2>1, BoundsAssumption DEF RefundRow
  <2> QED BY <1>1, <2>2 DEF InsertRefund
<1>2. ASSUME NEW s \in Slots, ApproveRefund(s)
      PROVE  \E r \in Refunds, new \in RefundRow :
                /\ refund[r].st = "PENDING"
                /\ new.st = "APPROVED" /\ new.back \in {refund[r].back, refund[r].back + 1}
                /\ refund' = [refund EXCEPT ![r] = new]
  <2> DEFINE r == req[s].r
             n == refund[r].back + IF req[s].had THEN 1 ELSE 0
             new == [refund[r] EXCEPT !.st = "APPROVED", !.back = n]
  <2>1. r \in Refunds /\ refund[r] \in RefundRow
    BY <1>2, Carries DEF ApproveRefund, TypeOK
  <2>2. n \in {refund[r].back, refund[r].back + 1} /\ n \in Nat
    BY <2>1 DEF RefundRow
  <2>3. refund[r].st = "PENDING" /\ refund' = [refund EXCEPT ![r] = new]
    BY <1>2 DEF ApproveRefund, Undecided
  <2> HIDE DEF r, n
  <2>4. new \in RefundRow /\ new.st = "APPROVED" /\ new.back = n
    BY <2>1, <2>2 DEF RefundRow
  <2> QED BY <2>1, <2>2, <2>3, <2>4
<1>3. ASSUME NEW r \in Refunds, RejectRefund(r)
      PROVE  \E new \in RefundRow :
                /\ refund[r].st = "PENDING"
                /\ new.st = "REJECTED" /\ new.back = refund[r].back
                /\ refund' = [refund EXCEPT ![r] = new]
  <2> DEFINE new == [refund[r] EXCEPT !.st = "REJECTED"]
  <2>1. new \in RefundRow /\ new.st = "REJECTED" /\ new.back = refund[r].back
    BY DEF TypeOK, RefundRow
  <2>2. refund[r].st = "PENDING" /\ refund' = [refund EXCEPT ![r] = new]
    BY <1>3 DEF RejectRefund, TypeOK
  <2> QED BY <2>1, <2>2
<1> QED BY <1>1, <1>2, <1>3, DeskWriters

\* What a step does to the cancellation requests.
LEMMA CancelStep ==
    ASSUME TypeOK, [Next]_vars
    PROVE  \/ UNCHANGED cancel
           \/ /\ \A c \in Cancels : cancel[c] # "PENDING"
              /\ \E c \in Cancels : cancel' = [cancel EXCEPT ![c] = "PENDING"]
           \/ \E c \in Cancels, st \in {"APPROVED", "REJECTED"} :
                 cancel' = [cancel EXCEPT ![c] = st]
<1>1. ASSUME NEW s \in Slots, ApplyCancel(s)
      PROVE  \E c \in Cancels : cancel' = [cancel EXCEPT ![c] = "APPROVED"]
  BY <1>1, Carries DEF ApplyCancel
<1> QED BY <1>1, DeskWriters DEF InsertCancel, RejectCancel

\* Whoever asks and whoever decides, at most one refund request and one
\* cancellation request of the order wait for a decision.
THEOREM OneOpenRequestHolds == Spec => []OneOpenRequest
<1>1. Init => OneOpenRequest
  BY DEF Init, OneOpenRequest, NoRefund
<1>2. OneOpenRequest /\ TypeOK /\ [Next]_vars => OneOpenRequest'
  <2> SUFFICES ASSUME OneOpenRequest, TypeOK, [Next]_vars PROVE OneOpenRequest'
    OBVIOUS
  <2>1. \A r, t \in Refunds :
           refund'[r].st = "PENDING" /\ refund'[t].st = "PENDING" => r = t
    BY RefundStep DEF TypeOK, OneOpenRequest, OpenRefunds
  <2>2. \A c, d \in Cancels : cancel'[c] = "PENDING" /\ cancel'[d] = "PENDING" => c = d
    BY CancelStep DEF TypeOK, OneOpenRequest
  <2> QED BY <2>1, <2>2 DEF OneOpenRequest
<1> QED BY <1>1, <1>2, TypeCorrect, PTL DEF Spec

\* Several admins deciding at once write one ledger entry for an approved refund
\* at most, and none for the others.
THEOREM RefundBookCorrect == Spec => []RefundBookMatchesRows
<1>1. Init => RefundBookMatchesRows
  BY DEF Init, RefundBookMatchesRows, NoRefund
<1>2. RefundBookMatchesRows /\ TypeOK /\ [Next]_vars => RefundBookMatchesRows'
  <2> SUFFICES ASSUME RefundBookMatchesRows, TypeOK, [Next]_vars,
                      NEW t \in Refunds
               PROVE  refund'[t].back <= 1 /\ (refund'[t].back = 1 => refund'[t].st = "APPROVED")
    BY DEF RefundBookMatchesRows
  <2>1. refund[t] \in RefundRow
    BY DEF TypeOK
  <2>2. \A r \in Refunds : refund[r].st = "PENDING" => refund[r].back = 0
    <3> SUFFICES ASSUME NEW r \in Refunds, refund[r].st = "PENDING"
                 PROVE  refund[r].back = 0
      OBVIOUS
    <3>1. refund[r].back \in Nat
      BY DEF TypeOK, RefundRow
    <3>2. refund[r].back <= 1 /\ refund[r].back # 1
      BY DEF RefundBookMatchesRows
    <3> QED BY <3>1, <3>2
  <2> QED BY <2>1, <2>2, RefundStep DEF TypeOK, RefundRow, RefundBookMatchesRows
<1> QED BY <1>1, <1>2, TypeCorrect, PTL DEF Spec

-----------------------------------------------------------------------------
(* QRIS intents *)

\* updateMany leaves every row's method alone.
LEMMA SetStatusMethods ==
    ASSUME TypeOK, NEW S, NEW st \in PaymentStatus
    PROVE  \A p \in Payments : SetStatus(S, st)[p].method = pay[p].method
<1> SUFFICES ASSUME NEW p \in Payments
             PROVE  SetStatus(S, st)[p].method = pay[p].method
  OBVIOUS
<1>1. pay[p] \in PaymentRow
  BY DEF TypeOK
<1>2. [pay[p] EXCEPT !.st = st].method = pay[p].method
  BY <1>1 DEF PaymentRow
<1>3. SetStatus(S, st)[p] = IF p \in S THEN [pay[p] EXCEPT !.st = st] ELSE pay[p]
  BY DEF SetStatus
<1> QED BY <1>2, <1>3

\* Only createPayment for QRIS turns a row into a QRIS row.
LEMMA QrisComesFromIntent ==
    ASSUME MoneyInv, [Next]_vars, ~\E s \in Slots : CreateQrisIntent(s)
    PROVE  \A p \in Payments : pay'[p].method = "QRIS" => pay[p].method = "QRIS"
<1> DEFINE Kept == \A p \in Payments : pay'[p].method = "QRIS" => pay[p].method = "QRIS"
<1> USE DEF MoneyInv, TypeOK, PaymentStatus
<1>1. CASE UNCHANGED pay
  BY <1>1
<1>2. CASE CreateCashIntent
  <2> DEFINE superseded == {p \in Payments : /\ pay[p].method = "QRIS"
                                             /\ pay[p].st \in {"PENDING", "FAILED", "EXPIRED"}}
             rest == SetStatus(superseded, "CANCELLED")
  <2>1. /\ rest \in [Payments -> PaymentRow]
        /\ \A p \in Payments : rest[p].method = pay[p].method
    BY SetStatusMethods, SetStatusRows
  <2> HIDE DEF rest
  <2>2. CASE pay' = rest
    BY <2>1, <2>2
  <2>3. ASSUME NEW n \in Payments, pay' = [rest EXCEPT ![n] = NewRow("KASIR", "UNPAID")]
        PROVE  Kept
    BY <2>1, <2>3 DEF NewRow
  <2> QED BY <1>2, <2>2, <2>3 DEF CreateCashIntent, rest
<1>3. ASSUME NEW p \in Payments, Lapse(p) PROVE Kept
  BY <1>3 DEF Lapse, PaymentRow
<1>4. ASSUME NEW s \in Slots, CreateVaIntent(s) PROVE Kept
  BY <1>4 DEF CreateVaIntent, NewRow
<1>5. ASSUME NEW s \in Slots, ExpireStale(s) \/ GatewayRejects(s) \/ ApplyCancel(s)
      PROVE  Kept
  <2>1. ASSUME NEW S, NEW st \in PaymentStatus, pay' = SetStatus(S, st) PROVE Kept
    BY <2>1, SetStatusMethods
  <2> DEFINE lost == {req[s].p} \cap {p \in Payments : pay[p].st = "PENDING"}
             open == {p \in Payments : pay[p].st \in {"UNPAID", "PENDING"}}
  <2>2. \/ pay' = SetStatus(lost, "EXPIRED")
        \/ pay' = SetStatus(lost, "FAILED")
        \/ pay' = SetStatus(open, "FAILED")
    BY <1>5 DEF ExpireStale, GatewayRejects, ApplyCancel
  <2> HIDE DEF lost, open
  <2> QED BY <2>1, <2>2
<1>6. ASSUME NEW s \in Slots, GatewayAccepts(s) PROVE Kept
  BY <1>6 DEF GatewayAccepts, PaymentRow
<1>7. ASSUME NEW s \in Slots, SwitchRecheck(s) \/ SwitchInsert(s) PROVE Kept
  <2>1. /\ StaleExpired(s) \in [Payments -> PaymentRow]
        /\ \A p \in Payments : StaleExpired(s)[p].method = pay[p].method
    BY SetStatusMethods, SetStatusRows DEF StaleExpired
  <2> QED BY <1>7, <2>1 DEF SwitchRecheck, SwitchInsert, NewRow
<1>8. ASSUME NEW s \in Slots, Collect(s) PROVE Kept
  BY <1>8 DEF Collect, PaymentRow
<1>9. ASSUME NEW s \in Slots, CallbackApply(s) PROVE Kept
  <2>1. req[s].res \in PaymentStatus
    BY <1>9, Carries, CallbacksAssumption DEF CallbackApply
  <2> QED BY <1>9, <2>1, SetStatusMethods DEF CallbackApply
<1>10. ASSUME NEW s \in Slots, ApproveRefund(s) PROVE Kept
  BY <1>10, SetStatusMethods DEF ApproveRefund
<1>11. ASSUME NEW s \in Slots, Quiet(s) PROVE Kept
  BY <1>1, <1>11, QuietKeepsRows
<1>12. ASSUME NEW s \in Slots, CashierAndGateway(s) \/ KitchenAndDesks(s) \/ GiveUp(s)
       PROVE  Kept
  BY <1>4, <1>5, <1>6, <1>7, <1>8, <1>9, <1>10, <1>11, <1>12
     DEF CashierAndGateway, KitchenAndDesks, Quiet
<1> QED BY <1>1, <1>2, <1>3, <1>12 DEF Next, RejectRefund, RejectCancel, vars

\* However many cashiers, customers and retries ask for a QRIS code, the order has
\* at most one that can be paid.
THEOREM OneLiveQrisHolds == Spec => []OneLiveQris
<1>1. Init => OneLiveQris
  BY DEF Init, OneLiveQris, Having, NoPayment, NewRow
<1>2. OneLiveQris /\ MoneyInv /\ [Next]_vars => OneLiveQris'
  <2> SUFFICES ASSUME OneLiveQris, MoneyInv, [Next]_vars PROVE OneLiveQris'
    OBVIOUS
  <2>1. CASE \E s \in Slots : CreateQrisIntent(s)
    <3> DEFINE rest == SetStatus(UnpaidCash, "CANCELLED")
    <3>1. /\ rest \in [Payments -> PaymentRow]
          /\ \A p \in Payments : rest[p].method = "QRIS" /\ rest[p].st = "PENDING"
                                  => pay[p].method = "QRIS" /\ pay[p].st = "PENDING"
      <4>1. /\ rest \in [Payments -> PaymentRow]
            /\ \A p \in Payments : rest[p] = IF p \in UnpaidCash
                  THEN [pay[p] EXCEPT !.st = "CANCELLED"] ELSE pay[p]
        BY SetStatusRows DEF MoneyInv, PaymentStatus
      <4>2. \A p \in Payments : /\ pay[p] \in PaymentRow
                                /\ [pay[p] EXCEPT !.st = "CANCELLED"].st = "CANCELLED"
        BY DEF MoneyInv, TypeOK, PaymentRow
      <4> HIDE DEF rest
      <4> QED BY <4>1, <4>2
    <3> HIDE DEF rest
    <3>2. CASE pay' = rest
      BY <3>1, <3>2 DEF OneLiveQris, Having
    <3>3. ASSUME LiveQris = {}, NEW n \in Payments,
                 pay' = [rest EXCEPT ![n] = NewRow("QRIS", "PENDING")]
          PROVE  OneLiveQris'
      BY <3>1, <3>3 DEF OneLiveQris, LiveQris, Having
    <3> QED BY <2>1, <3>2, <3>3 DEF CreateQrisIntent, ReuseQrisIntent, NewQrisIntent, rest
  <2>2. CASE ~\E s \in Slots : CreateQrisIntent(s)
    <3>1. ASSUME NEW p \in Payments, pay'[p].method = "QRIS", pay'[p].st = "PENDING"
          PROVE  pay[p].method = "QRIS" /\ pay[p].st = "PENDING"
      <4>1. pay[p].method = "QRIS" /\ pay[p].st # "NONE"
        BY <2>2, <3>1, QrisComesFromIntent DEF MoneyInv, RowShape
      <4>2. Row(p)!Live \/ UNCHANGED pay[p]
        BY NextMoney DEF RowsStep
      <4>3. pay[p] \in PaymentRow
        BY DEF MoneyInv, TypeOK
      <4> QED BY <3>1, <4>1, <4>2, <4>3, CallbacksAssumption
              DEF PaymentRow, Row!Live, Row!Open, Row!Supersede, Row!Date, Row!Lose,
                  Row!Take, Row!Report, Row!GiveBack, Row!Void, Row!To
    <3> QED BY <3>1 DEF OneLiveQris, Having
  <2> QED BY <2>1, <2>2
<1> QED BY <1>1, <1>2, MoneyInvariant, PTL DEF Spec

-----------------------------------------------------------------------------
(* The kitchen *)

\* A move under way is one of the table.
MovesListed ==
    \A s \in Slots : req[s].at = "move" =>
        req[s].from \in OrderStatus /\ req[s].to \in ValidStatusTransitions[req[s].from]

\* Only updateOrderStatus starts a move.
LEMMA MoveComesFromStart ==
    ASSUME MoneyInv, [Next]_vars, NEW t \in Slots, req'[t].at = "move"
    PROVE  req'[t] = req[t] \/ MoveStart(t)
<1>1. CASE UNCHANGED req
  BY <1>1
<1>2. ASSUME NEW s \in Slots, CashierAndGateway(s) \/ KitchenAndDesks(s) \/ GiveUp(s),
             t # s
      PROVE  req'[t] = req[t]
  BY <1>2 DEF CashierAndGateway, KitchenAndDesks, GiveUp, CreateVaIntent, CreateQrisIntent,
     ReuseQrisIntent, NewQrisIntent, KasirQrisStart, PublicQrisStart, ExpireStale,
     RecheckActive, MirrorExpired, GatewayAccepts, GatewayRejects, MirrorGatewayFailure,
     SwitchStart, SwitchRecheck, SwitchInsert, CollectStart, Collect, CallbackStart,
     CallbackRead, CallbackApply, MoveStart, Move, RefundStart, InsertRefund,
     ReadForRefund, ApproveRefund, CancelStart, InsertCancel, DecideCancelStart,
     WeighCancel, ApplyCancel, Goto, MoneyInv, TypeOK
<1>3. CASE CashierAndGateway(t) \/ KitchenAndDesks(t) \/ GiveUp(t)
  <2> USE DEF MoneyInv, TypeOK, Goto
  <2> SUFFICES ASSUME ~MoveStart(t) PROVE FALSE
    OBVIOUS
  <2>1. CASE Goto(t, Idle)
    BY <2>1 DEF Idle
  <2>2. CASE CreateVaIntent(t) \/ CreateQrisIntent(t)
    BY <2>2 DEF CreateVaIntent, CreateQrisIntent, ReuseQrisIntent, NewQrisIntent, Idle
  <2>3. CASE KasirQrisStart(t) \/ ExpireStale(t) \/ RecheckActive(t) \/ MirrorExpired(t)
             \/ SwitchStart(t)
    <3>1. CASE KasirQrisStart(t)
      BY <3>1 DEF KasirQrisStart
    <3>2. CASE ExpireStale(t)
      BY <3>2 DEF ExpireStale
    <3>3. CASE RecheckActive(t) \/ MirrorExpired(t)
      BY <3>3 DEF RecheckActive, MirrorExpired, Idle
    <3>4. CASE SwitchStart(t)
      BY <3>4 DEF SwitchStart
    <3> QED BY <2>3, <3>1, <3>2, <3>3, <3>4
  <2>4. CASE PublicQrisStart(t)
    <3>1. \/ \E p \in Payments : Goto(t, [at |-> "expire", p |-> p, by |-> "public"])
          \/ Goto(t, [at |-> "qris"])
      BY <2>4 DEF PublicQrisStart
    <3>2. CASE Goto(t, [at |-> "qris"])
      BY <3>2
    <3>3. ASSUME NEW p \in Payments, Goto(t, [at |-> "expire", p |-> p, by |-> "public"])
          PROVE  FALSE
      BY <3>3
    <3> QED BY <3>1, <3>2, <3>3
  <2>5. CASE GatewayAccepts(t) \/ GatewayRejects(t) \/ MirrorGatewayFailure(t)
    BY <2>5 DEF GatewayAccepts, GatewayRejects, MirrorGatewayFailure, Idle
  <2>6. CASE SwitchRecheck(t) \/ SwitchInsert(t) \/ CollectStart(t) \/ Collect(t)
    BY <2>6 DEF SwitchRecheck, SwitchInsert, CollectStart, Collect, Idle
  <2>7. CASE CallbackStart(t) \/ CallbackRead(t) \/ CallbackApply(t)
    BY <2>7 DEF CallbackStart, CallbackRead, CallbackApply, Idle
  <2>8. CASE Move(t) \/ RefundStart(t) \/ InsertRefund(t) \/ ReadForRefund(t) \/ ApproveRefund(t)
    BY <2>8 DEF Move, RefundStart, InsertRefund, ReadForRefund, ApproveRefund, Idle
  <2>9. CASE CancelStart(t) \/ InsertCancel(t) \/ DecideCancelStart(t) \/ ApplyCancel(t)
    <3>1. CASE InsertCancel(t) \/ ApplyCancel(t)
      BY <2>1, <3>1 DEF InsertCancel, ApplyCancel
    <3>2. CASE CancelStart(t)
      BY <3>2 DEF CancelStart
    <3>3. CASE DecideCancelStart(t)
      BY <3>3 DEF DecideCancelStart
    <3> QED BY <2>9, <3>1, <3>2, <3>3
  <2>10. CASE WeighCancel(t)
    <3>1. req'[t].at = "applyCancel"
      BY <2>10, Carries DEF WeighCancel
    <3> QED BY <3>1
  <2>11. CASE GiveUp(t)
    BY <2>11 DEF GiveUp, Idle
  <2> QED BY <1>3, <2>2, <2>3, <2>4, <2>5, <2>6, <2>7, <2>8, <2>9, <2>10, <2>11
          DEF CashierAndGateway, KitchenAndDesks
<1> QED BY <1>1, <1>2, <1>3 DEF Next, CreateCashIntent, Lapse, RejectRefund, RejectCancel, vars

LEMMA NextMoves ==
    ASSUME MoneyInv, MovesListed, [Next]_vars PROVE MovesListed'
<1> SUFFICES ASSUME NEW t \in Slots, req'[t].at = "move"
             PROVE  /\ req'[t].from \in OrderStatus
                    /\ req'[t].to \in ValidStatusTransitions[req'[t].from]
  BY DEF MovesListed
<1>1. CASE req'[t] = req[t]
  BY <1>1 DEF MovesListed
<1>2. CASE MoveStart(t)
  BY <1>2 DEF MoveStart, Goto, MoneyInv, TypeOK
<1> QED BY <1>1, <1>2, MoveComesFromStart

\* Only a collection, a move, a refund in full and a cancellation change the status.
LEMMA StatusWriters ==
    ASSUME [Next]_vars
    PROVE  \/ UNCHANGED status
           \/ \E s \in Slots : Collect(s) \/ Move(s) \/ ApproveRefund(s) \/ ApplyCancel(s)
<1> USE DEF OrderUnchanged, MoneyUnchanged
<1>1. CASE UNCHANGED vars
  BY <1>1 DEF vars
<1>2. CASE CreateCashIntent
  BY <1>2 DEF CreateCashIntent
<1>3. ASSUME NEW p \in Payments, Lapse(p) PROVE UNCHANGED status
  BY <1>3 DEF Lapse
<1>4. ASSUME NEW s \in Slots, CashierAndGateway(s) \/ GiveUp(s)
      PROVE  UNCHANGED status \/ Collect(s)
  BY <1>4 DEF CashierAndGateway, CreateVaIntent, CreateQrisIntent, KasirQrisStart,
     PublicQrisStart, ExpireStale, RecheckActive, MirrorExpired, GatewayAccepts,
     GatewayRejects, MirrorGatewayFailure, SwitchStart, SwitchRecheck, SwitchInsert,
     CollectStart, CallbackStart, CallbackRead, CallbackApply, GiveUp
<1>5. ASSUME NEW s \in Slots, KitchenAndDesks(s)
      PROVE  UNCHANGED status \/ Move(s) \/ ApproveRefund(s) \/ ApplyCancel(s)
  BY <1>5 DEF KitchenAndDesks, MoveStart, RefundStart, InsertRefund, ReadForRefund,
     CancelStart, InsertCancel, DecideCancelStart, WeighCancel
<1>6. ASSUME NEW r \in Refunds, RejectRefund(r) PROVE UNCHANGED status
  BY <1>6 DEF RejectRefund
<1>7. ASSUME NEW c \in Cancels, RejectCancel(c) PROVE UNCHANGED status
  BY <1>7 DEF RejectCancel
<1> QED BY <1>1, <1>2, <1>3, <1>4, <1>5, <1>6, <1>7 DEF Next

\* Several screens, desks and callbacks move the order: but for a collection, along
\* the table only, or to CANCELLED before it ends (updateOrderStatus, decideRefund,
\* decideCancellation).
THEOREM KitchenMoves == Spec => KitchenInOrder
<1> DEFINE Kept == status' \notin {status, "PROCESSING"}
                     => \/ status' \in ValidStatusTransitions[status]
                        \/ status' = "CANCELLED" /\ status \notin Terminal
<1>1. Init => MovesListed
  BY DEF Init, MovesListed, Idle
<1>2. MoneyInv /\ MovesListed /\ [Next]_vars => MovesListed'
  BY NextMoves
<1>3. MoneyInv /\ MovesListed /\ [Next]_vars => [Kept]_vars
  <2> SUFFICES ASSUME MoneyInv, MovesListed, [Next]_vars PROVE Kept
    OBVIOUS
  <2>1. CASE UNCHANGED status
    BY <2>1
  <2>2. ASSUME NEW s \in Slots, Collect(s) PROVE Kept
    BY <2>2 DEF Collect
  <2>3. ASSUME NEW s \in Slots, Move(s) PROVE Kept
    BY <2>3 DEF Move, StillAt, MovesListed
  <2>4. ASSUME NEW s \in Slots, ApproveRefund(s) \/ ApplyCancel(s) PROVE Kept
    BY <2>4 DEF ApproveRefund, ApplyCancel
  <2> QED BY <2>1, <2>2, <2>3, <2>4, StatusWriters
<1>4. Spec => [][Kept]_vars
  BY <1>1, <1>2, <1>3, MoneyInvariant, PTL DEF Spec
<1> QED BY <1>4 DEF KitchenInOrder

-----------------------------------------------------------------------------
(* When requests do not overlap *)

OneAtATime == \A s, t \in Slots : s = t

RefundedRows == {p \in Payments : pay[p].st = "REFUNDED"}

CollectedRows == {p \in Payments : pay[p].st \in CollectedStatuses}

\* What a request read is still true when it uses it: nobody else is at work.
StillTrue(r) ==
    /\ r.at = "collect" => (r.adv => status \in {"PENDING", "CONFIRMED"})
    /\ r.at = "callback" => ~IsPaid(r.p)
    /\ r.at = "callbackTx" => r.cur # "PAID"
    /\ r.at = "expire" => (r.by = "public" => payStatus # "PAID")
    /\ r.at = "mirror" => payStatus # "PAID"
    /\ r.at = "askRefund" =>
          /\ status \notin Terminal => CollectedRows # {}
          /\ r.items => r.amt + ApprovedItems <= Total
    /\ r.at = "settleRefund" =>
          /\ r.had <=> CollectedRows # {}
          /\ r.holds <=> NetCollected > refund[r.r].amt
    /\ r.at \in {"weighCancel", "applyCancel"} => (r.ready <=> StockTaken)
    /\ r.at = "applyCancel" => NetCollected <= 0

\* The stock follows the order, and comes back by approved refunds of items only,
\* as long as the order is not cancelled.
StockInv ==
    /\ status \in {"PENDING", "CONFIRMED", "PROCESSING"} => stock.out = 0
    /\ StockTaken => stock.out = Total
    /\ stock.out <= Total /\ stock.back <= stock.out
    /\ status # "CANCELLED" => stock.back <= ApprovedItems

\* What was refunded in full is covered by approved refunds; an order on which a
\* refund was ever asked for, and that goes on, still holds money.
HeldInv ==
    /\ Total * Cardinality(RefundedRows) <= ApprovedAmount
    /\ status \notin Terminal =>
          /\ RefundedRows = {}
          /\ stock.back > 0 => NetCollected > 0
          /\ (\E r \in Refunds : refund[r].st # "NONE") => CollectedRows # {}
    /\ \A r \in Refunds : refund[r].st = "PENDING" /\ refund[r].items =>
          refund[r].amt + ApprovedItems <= Total
    /\ PaidMirrorIsBacked

SequentialInv == StockInv /\ HeldInv /\ \A s \in Slots : StillTrue(req[s])

-----------------------------------------------------------------------------
(* Counting rows and adding amounts *)

\* Rows and refunds are numbered, hence finitely many.
LEMMA BoundedRows == IsFiniteSet(Payments) /\ IsFiniteSet(Refunds)
<1>1. 1 \in Int /\ MaxPay \in Int /\ MaxRefund \in Int
  BY BoundsAssumption
<1> QED BY <1>1, FS_Interval DEF Payments, Refunds

\* More rows cost no less, and only no row costs nothing.
LEMMA MoreRows ==
    ASSUME NEW A \in SUBSET Payments, NEW B \in SUBSET Payments, A \subseteq B
    PROVE  /\ Total * Cardinality(A) \in Nat /\ Total * Cardinality(B) \in Nat
           /\ Total * Cardinality(A) <= Total * Cardinality(B)
           /\ Total * Cardinality(A) = 0 <=> A = {}
<1>1. IsFiniteSet(A) /\ IsFiniteSet(B)
  BY BoundedRows, FS_Subset
<1>2. /\ Cardinality(A) \in Nat /\ Cardinality(B) \in Nat /\ Cardinality(A) <= Cardinality(B)
      /\ Cardinality(A) = 0 <=> A = {}
  BY <1>1, FS_CardinalityType, FS_Subset, FS_EmptySet
<1>3. \A a, n \in Nat : n * a \in Nat /\ (n # 0 => (n * a = 0 <=> a = 0))
  OBVIOUS
<1>4. \A a, b, n \in Nat : a <= b => n * a <= n * b
  <2> SUFFICES ASSUME NEW a \in Nat, NEW b \in Nat, NEW n \in Nat, a <= b
               PROVE  n * a <= n * b
    OBVIOUS
  <2>1. PICK d \in Nat : b = a + d
    <3>1. b - a \in Nat /\ b = a + (b - a)
      OBVIOUS
    <3> QED BY <3>1
  <2>2. n * (a + d) = n * a + n * d
    OBVIOUS
  <2>3. n * a \in Nat /\ n * d \in Nat
    BY <1>3
  <2> QED BY <2>1, <2>2, <2>3
<1> QED BY <1>2, <1>3, <1>4, BoundsAssumption

AmountsOf(rows) == [r \in Refunds |-> rows[r].amt]

\* A sum of refund amounts is the sum of a function on a finite set.
LEMMA AmountsAdd ==
    ASSUME NEW rows \in [Refunds -> RefundRow], NEW S \in SUBSET Refunds
    PROVE  /\ IsFiniteSet(S) /\ Numbers(AmountsOf(rows), S)
           /\ SumOf(AmountsOf(rows), S) \in Nat
           /\ MapThenSumSet(LAMBDA r : rows[r].amt, S) = SumOf(AmountsOf(rows), S)
<1>1. IsFiniteSet(S)
  BY BoundedRows, FS_Subset
<1>2. \A r \in S : AmountsOf(rows)[r] = rows[r].amt /\ rows[r].amt \in Nat
  BY BoundsAssumption DEF AmountsOf, RefundRow
<1>3. PICK v : v = AmountsOf(rows)
  OBVIOUS
<1>4. Numbers(v, S) /\ SumOf(v, S) \in Nat
  <2>1. \A x \in S : v[x] \in Nat
    BY <1>2, <1>3
  <2>2. SumOf(v, S) \in Nat
    BY <1>1, <2>1, SumOfNaturals
  <2> QED BY <2>1, <2>2 DEF Numbers
<1>5. MapThenSumSet(LAMBDA r : rows[r].amt, S) = SumOf(v, S)
  <2> DEFINE A(g) == g = [s \in SUBSET S |->
                  IF s = {} THEN 0
                  ELSE rows[CHOOSE x \in s : TRUE].amt + g[s \ {CHOOSE x \in s : TRUE}]]
             B(g) == g = [s \in SUBSET S |->
                  IF s = {} THEN 0
                  ELSE v[CHOOSE x \in s : TRUE] + g[s \ {CHOOSE x \in s : TRUE}]]
  <2>1. \A s \in SUBSET S : s # {} => (CHOOSE x \in s : TRUE) \in S
    OBVIOUS
  <2>2. \A g : A(g) <=> B(g)
    BY <1>2, <1>3, <2>1
  <2>3. (CHOOSE g : B(g))[S] = SumOf(v, S)
    BY <1>1, <1>4, FoldOfFunction
  <2> HIDE DEF A, B
  <2>4. (CHOOSE g : A(g)) = (CHOOSE g : B(g))
    BY <2>2, Zenon
  <2>5. (CHOOSE g : A(g))[S] = SumOf(v, S)
    BY <2>3, <2>4
  <2> QED BY <2>5 DEF A, MapThenSumSet, MapThenFoldSet
<1> QED BY <1>1, <1>3, <1>4, <1>5

Approved(rows) == {r \in Refunds : rows[r].st = "APPROVED"}

ApprovedWithItems(rows) == {r \in Refunds : rows[r].st = "APPROVED" /\ rows[r].items}

\* The two figures the desks read of the approved refunds, as sums.
LEMMA ApprovedIs ==
    ASSUME TypeOK
    PROVE  /\ ApprovedAmount \in Nat /\ ApprovedItems \in Nat
           /\ ApprovedAmount = SumOf(AmountsOf(refund), Approved(refund))
           /\ ApprovedItems = SumOf(AmountsOf(refund), ApprovedWithItems(refund))
<1>1. refund \in [Refunds -> RefundRow]
  BY DEF TypeOK
<1>2. Approved(refund) \in SUBSET Refunds /\ ApprovedWithItems(refund) \in SUBSET Refunds
  BY DEF Approved, ApprovedWithItems
<1>3. ApprovedAmount = SumOf(AmountsOf(refund), Approved(refund))
  BY <1>1, <1>2, AmountsAdd DEF ApprovedAmount, Approved, MapThenSumSet, MapThenFoldSet
<1>4. ApprovedItems = SumOf(AmountsOf(refund), ApprovedWithItems(refund))
  BY <1>1, <1>2, AmountsAdd DEF ApprovedItems, ApprovedWithItems, MapThenSumSet, MapThenFoldSet
<1> QED BY <1>1, <1>2, <1>3, <1>4, AmountsAdd

\* The same in the next state.
LEMMA ApprovedIsNext ==
    ASSUME TypeOK'
    PROVE  /\ ApprovedAmount' \in Nat /\ ApprovedItems' \in Nat
           /\ ApprovedAmount' = SumOf(AmountsOf(refund'), Approved(refund'))
           /\ ApprovedItems' = SumOf(AmountsOf(refund'), ApprovedWithItems(refund'))
<1>1. refund' \in [Refunds -> RefundRow]
  BY DEF TypeOK
<1>2. Approved(refund') \in SUBSET Refunds /\ ApprovedWithItems(refund') \in SUBSET Refunds
  BY DEF Approved, ApprovedWithItems
<1>3. ApprovedAmount' = SumOf(AmountsOf(refund'), Approved(refund'))
  BY <1>1, <1>2, AmountsAdd DEF ApprovedAmount, Approved, MapThenSumSet, MapThenFoldSet
<1>4. ApprovedItems' = SumOf(AmountsOf(refund'), ApprovedWithItems(refund'))
  BY <1>1, <1>2, AmountsAdd DEF ApprovedItems, ApprovedWithItems, MapThenSumSet, MapThenFoldSet
<1> QED BY <1>1, <1>2, <1>3, <1>4, AmountsAdd

\* The sums see approved refunds only.
LEMMA SameApproved ==
    ASSUME TypeOK, TypeOK',
           \A r \in Refunds : /\ refund'[r].st = "APPROVED" <=> refund[r].st = "APPROVED"
                              /\ refund[r].st = "APPROVED" =>
                                    /\ refund'[r].amt = refund[r].amt
                                    /\ refund'[r].items = refund[r].items
    PROVE  ApprovedAmount' = ApprovedAmount /\ ApprovedItems' = ApprovedItems
<1>1. /\ Approved(refund') = Approved(refund)
      /\ ApprovedWithItems(refund') = ApprovedWithItems(refund)
  BY DEF Approved, ApprovedWithItems
<1>2. refund \in [Refunds -> RefundRow] /\ refund' \in [Refunds -> RefundRow]
  BY DEF TypeOK
<1>3. \A r \in Approved(refund) : AmountsOf(refund')[r] = AmountsOf(refund)[r]
  BY DEF AmountsOf, Approved
<1>4. /\ Approved(refund) \in SUBSET Refunds
      /\ ApprovedWithItems(refund) \in SUBSET Approved(refund)
  BY DEF Approved, ApprovedWithItems
<1>5. SumOf(AmountsOf(refund'), Approved(refund)) = SumOf(AmountsOf(refund), Approved(refund))
  BY <1>2, <1>3, <1>4, AmountsAdd, SumOfEqual
<1>6. SumOf(AmountsOf(refund'), ApprovedWithItems(refund))
        = SumOf(AmountsOf(refund), ApprovedWithItems(refund))
  BY <1>2, <1>3, <1>4, AmountsAdd, SumOfEqual
<1> QED BY <1>1, <1>5, <1>6, ApprovedIs, ApprovedIsNext

\* An approval adds its amount, and to the items if it was by items.
LEMMA OneMoreApproved ==
    ASSUME TypeOK, TypeOK', NEW r \in Refunds, refund[r].st # "APPROVED",
           refund'[r].st = "APPROVED", refund'[r].amt = refund[r].amt,
           refund'[r].items = refund[r].items,
           \A t \in Refunds : t # r => refund'[t] = refund[t]
    PROVE  /\ ApprovedAmount' = ApprovedAmount + refund[r].amt
           /\ ApprovedItems' = ApprovedItems + IF refund[r].items THEN refund[r].amt ELSE 0
<1> DEFINE f == AmountsOf(refund)
           g == AmountsOf(refund')
           S == Approved(refund)
           T == ApprovedWithItems(refund)
<1>1. refund \in [Refunds -> RefundRow] /\ refund' \in [Refunds -> RefundRow]
  BY DEF TypeOK
<1>2. \A t \in Refunds : g[t] = f[t] /\ f[t] = refund[t].amt /\ f[t] \in Int
  BY <1>1, BoundsAssumption DEF AmountsOf, RefundRow
<1>3. /\ S \in SUBSET Refunds /\ T \in SUBSET Refunds /\ r \notin S /\ r \notin T
      /\ Approved(refund') = S \cup {r}
      /\ ApprovedWithItems(refund') = IF refund[r].items THEN T \cup {r} ELSE T
  BY DEF Approved, ApprovedWithItems
<1>4. /\ IsFiniteSet(S) /\ IsFiniteSet(T) /\ Numbers(f, S) /\ Numbers(f, T)
      /\ Numbers(g, S) /\ Numbers(g, T) /\ SumOf(f, S) \in Nat /\ SumOf(f, T) \in Nat
  BY <1>1, <1>3, AmountsAdd
<1>5. ApprovedAmount = SumOf(f, S) /\ ApprovedItems = SumOf(f, T)
  BY ApprovedIs
<1>6. /\ ApprovedAmount' = SumOf(g, S \cup {r})
      /\ ApprovedItems' = SumOf(g, IF refund[r].items THEN T \cup {r} ELSE T)
  BY <1>3, ApprovedIsNext
<1> HIDE DEF f, g, S, T
<1>7. SumOf(g, S) = SumOf(f, S) /\ SumOf(g, T) = SumOf(f, T)
  BY <1>2, <1>3, <1>4, SumOfEqual
<1>8. SumOf(g, S \cup {r}) = g[r] + SumOf(g, S) /\ SumOf(g, T \cup {r}) = g[r] + SumOf(g, T)
  BY <1>2, <1>3, <1>4, SumWith
<1>9. refund[r].amt \in Int /\ g[r] = refund[r].amt
  BY <1>2
<1> QED BY <1>4, <1>5, <1>6, <1>7, <1>8, <1>9

RefundedPaid == Total * Cardinality(RefundedRows)

\* What the figures of the order say of its rows.
LEMMA Figures ==
    ASSUME TypeOK
    PROVE  /\ TotalPaid \in Nat /\ RefundedPaid \in Nat /\ RefundedPaid <= TotalPaid
           /\ TotalPaid = 0 <=> CollectedRows = {}
           /\ RefundedPaid = 0 <=> RefundedRows = {}
           /\ ApprovedAmount \in Nat /\ ApprovedItems \in Nat
           /\ NetCollected = TotalPaid - ApprovedAmount
           /\ RefundedPaid # TotalPaid => AnyPaid
<1>1. RefundedRows \in SUBSET Payments /\ CollectedRows \in SUBSET Payments
  BY DEF RefundedRows, CollectedRows
<1>2. RefundedRows \subseteq CollectedRows
  BY DEF RefundedRows, CollectedRows, CollectedStatuses
<1>3. TotalPaid = Total * Cardinality(CollectedRows)
  BY DEF TotalPaid, CollectedRows
<1>4. ~AnyPaid => RefundedRows = CollectedRows
  BY DEF AnyPaid, IsPaid, RefundedRows, CollectedRows, CollectedStatuses
<1> QED BY <1>1, <1>2, <1>3, <1>4, MoreRows, ApprovedIs DEF RefundedPaid, NetCollected

\* The same in the next state.
LEMMA FiguresNext ==
    ASSUME TypeOK'
    PROVE  /\ TotalPaid' \in Nat /\ RefundedPaid' \in Nat /\ RefundedPaid' <= TotalPaid'
           /\ TotalPaid' = 0 <=> CollectedRows' = {}
           /\ RefundedPaid' = 0 <=> RefundedRows' = {}
           /\ ApprovedAmount' \in Nat /\ ApprovedItems' \in Nat
           /\ NetCollected' = TotalPaid' - ApprovedAmount'
           /\ RefundedPaid' # TotalPaid' => AnyPaid'
<1>1. RefundedRows' \in SUBSET Payments /\ CollectedRows' \in SUBSET Payments
  BY DEF RefundedRows, CollectedRows
<1>2. RefundedRows' \subseteq CollectedRows'
  BY DEF RefundedRows, CollectedRows, CollectedStatuses
<1>3. TotalPaid' = Total * Cardinality(CollectedRows')
  BY DEF TotalPaid, CollectedRows
<1>4. ~AnyPaid' => RefundedRows' = CollectedRows'
  BY DEF AnyPaid, IsPaid, RefundedRows, CollectedRows, CollectedStatuses
<1>5. RefundedPaid' = Total * Cardinality(RefundedRows')
  BY DEF RefundedPaid
<1>6. NetCollected' = TotalPaid' - ApprovedAmount'
  BY DEF NetCollected
<1> QED BY <1>1, <1>2, <1>3, <1>4, <1>5, <1>6, MoreRows, ApprovedIsNext

\* More rows collected, and fewer refunded, move the figures the same way.
LEMMA FiguresMove ==
    /\ CollectedRows \subseteq CollectedRows' => TotalPaid <= TotalPaid'
    /\ CollectedRows = CollectedRows' => TotalPaid' = TotalPaid
    /\ RefundedRows' \subseteq RefundedRows => RefundedPaid' <= RefundedPaid
    /\ RefundedRows' = CollectedRows => RefundedPaid' = TotalPaid
<1>1. /\ RefundedRows \in SUBSET Payments /\ CollectedRows \in SUBSET Payments
      /\ RefundedRows' \in SUBSET Payments /\ CollectedRows' \in SUBSET Payments
  BY DEF RefundedRows, CollectedRows
<1>2. /\ TotalPaid = Total * Cardinality(CollectedRows)
      /\ TotalPaid' = Total * Cardinality(CollectedRows')
      /\ RefundedPaid = Total * Cardinality(RefundedRows)
      /\ RefundedPaid' = Total * Cardinality(RefundedRows')
  BY DEF TotalPaid, CollectedRows, RefundedPaid
<1> QED BY <1>1, <1>2, MoreRows

-----------------------------------------------------------------------------
(* The handlers that take no money and give none back *)

SameMoney ==
    \A p \in Payments :
        pay[p].st \in CollectedStatuses \/ pay'[p].st \in CollectedStatuses
            => pay'[p].st = pay[p].st

\* updateMany on rows not collected, then a row that was not there.
LEMMA SetStatusSame ==
    ASSUME TypeOK, NEW S, NEW st \in PaymentStatus \ CollectedStatuses,
           \A p \in Payments \cap S : pay[p].st \notin CollectedStatuses
    PROVE  /\ pay' = SetStatus(S, st) => SameMoney
           /\ \A n \in Payments, method \in {"KASIR", "QRIS"}, to \in {"UNPAID", "PENDING"} :
                 IsNext(n) /\ pay' = [SetStatus(S, st) EXCEPT ![n] = NewRow(method, to)]
                     => SameMoney
<1> DEFINE rest == SetStatus(S, st)
<1>1. /\ rest \in [Payments -> PaymentRow]
      /\ \A p \in Payments : rest[p] = IF p \in S THEN [pay[p] EXCEPT !.st = st] ELSE pay[p]
  BY SetStatusRows
<1>2. \A p \in Payments : /\ pay[p] \in PaymentRow
                          /\ [pay[p] EXCEPT !.st = st].st = st
  BY DEF TypeOK, PaymentRow
<1>3. \A p \in Payments : \/ rest[p].st = pay[p].st
                          \/ /\ rest[p].st \notin CollectedStatuses
                             /\ pay[p].st \notin CollectedStatuses
  BY <1>1, <1>2
<1> HIDE DEF rest
<1>4. pay' = rest => SameMoney
  BY <1>3 DEF SameMoney
<1>5. ASSUME NEW n \in Payments, NEW method \in {"KASIR", "QRIS"},
             NEW to \in {"UNPAID", "PENDING"}, IsNext(n),
             pay' = [rest EXCEPT ![n] = NewRow(method, to)]
      PROVE  SameMoney
  <2>1. pay[n].st = "NONE"
    BY <1>5, NextIsNew
  <2>2. pay'[n].st = to /\ \A p \in Payments : p # n => pay'[p] = rest[p]
    BY <1>1, <1>5 DEF NewRow
  <2> QED BY <1>3, <2>1, <2>2 DEF SameMoney, CollectedStatuses
<1> QED BY <1>4, <1>5 DEF rest

\* Only a collection, a callback and a refund move collected rows.
LEMMA MoneyWriters ==
    ASSUME MoneyInv, [Next]_vars
    PROVE  \/ SameMoney
           \/ \E s \in Slots : Collect(s) \/ CallbackApply(s) \/ ApproveRefund(s)
<1> USE DEF MoneyInv, TypeOK, PaymentStatus
<1>1. ASSUME UNCHANGED pay PROVE SameMoney
  BY <1>1 DEF SameMoney
<1>2. CASE CreateCashIntent
  <2> DEFINE superseded == {p \in Payments : /\ pay[p].method = "QRIS"
                                             /\ pay[p].st \in {"PENDING", "FAILED", "EXPIRED"}}
  <2>1. \/ pay' = SetStatus(superseded, "CANCELLED")
        \/ \E n \in Payments : /\ IsNext(n)
                               /\ pay' = [SetStatus(superseded, "CANCELLED")
                                             EXCEPT ![n] = NewRow("KASIR", "UNPAID")]
    BY <1>2 DEF CreateCashIntent
  <2>2. \A p \in Payments \cap superseded : pay[p].st \notin CollectedStatuses
    BY DEF CollectedStatuses
  <2>3. "CANCELLED" \in PaymentStatus \ CollectedStatuses
    BY DEF CollectedStatuses
  <2> HIDE DEF superseded
  <2> QED BY <2>1, <2>2, <2>3, SetStatusSame
<1>3. ASSUME NEW p \in Payments, Lapse(p) PROVE SameMoney
  BY <1>3 DEF Lapse, PaymentRow, SameMoney
<1>4. ASSUME NEW s \in Slots, CreateVaIntent(s) PROVE SameMoney
  BY <1>4, NextIsNew DEF CreateVaIntent, NewRow, SameMoney, CollectedStatuses
<1>5. ASSUME NEW s \in Slots, CreateQrisIntent(s) PROVE SameMoney
  <2>1. \/ pay' = SetStatus(UnpaidCash, "CANCELLED")
        \/ \E n \in Payments : /\ IsNext(n)
                               /\ pay' = [SetStatus(UnpaidCash, "CANCELLED")
                                             EXCEPT ![n] = NewRow("QRIS", "PENDING")]
    BY <1>5 DEF CreateQrisIntent, ReuseQrisIntent, NewQrisIntent
  <2>2. \A p \in Payments \cap UnpaidCash : pay[p].st \notin CollectedStatuses
    BY DEF CollectedStatuses, UnpaidCash, Having
  <2>3. "CANCELLED" \in PaymentStatus \ CollectedStatuses
    BY DEF CollectedStatuses
  <2> QED BY <2>1, <2>2, <2>3, SetStatusSame
<1>6. ASSUME NEW s \in Slots, ExpireStale(s) \/ GatewayRejects(s) \/ ApplyCancel(s)
      PROVE  SameMoney
  <2> DEFINE lost == {req[s].p} \cap {p \in Payments : pay[p].st = "PENDING"}
             open == {p \in Payments : pay[p].st \in {"UNPAID", "PENDING"}}
  <2>1. \/ pay' = SetStatus(lost, "EXPIRED")
        \/ pay' = SetStatus(lost, "FAILED")
        \/ pay' = SetStatus(open, "FAILED")
    BY <1>6 DEF ExpireStale, GatewayRejects, ApplyCancel
  <2>2. /\ \A p \in Payments \cap lost : pay[p].st \notin CollectedStatuses
        /\ \A p \in Payments \cap open : pay[p].st \notin CollectedStatuses
        /\ "EXPIRED" \in PaymentStatus \ CollectedStatuses
        /\ "FAILED" \in PaymentStatus \ CollectedStatuses
    BY DEF CollectedStatuses
  <2> HIDE DEF lost, open
  <2> QED BY <2>1, <2>2, SetStatusSame
<1>7. ASSUME NEW s \in Slots, GatewayAccepts(s) PROVE SameMoney
  BY <1>7 DEF GatewayAccepts, PaymentRow, SameMoney
<1>8. ASSUME NEW s \in Slots, SwitchRecheck(s) \/ SwitchInsert(s) PROVE SameMoney
  <2> DEFINE lost == {req[s].stale} \cap {p \in Payments : pay[p].st = "PENDING"}
  <2>1. \/ UNCHANGED pay
        \/ pay' = SetStatus(lost, "EXPIRED")
        \/ \E n \in Payments : /\ IsNext(n)
                               /\ pay' = [SetStatus(lost, "EXPIRED")
                                             EXCEPT ![n] = NewRow("KASIR", "UNPAID")]
    BY <1>8 DEF SwitchRecheck, SwitchInsert, StaleExpired
  <2>2. /\ \A p \in Payments \cap lost : pay[p].st \notin CollectedStatuses
        /\ "EXPIRED" \in PaymentStatus \ CollectedStatuses
    BY DEF CollectedStatuses
  <2> HIDE DEF lost
  <2> QED BY <1>1, <2>1, <2>2, SetStatusSame
<1>9. ASSUME NEW s \in Slots, Quiet(s) PROVE SameMoney
  BY <1>1, <1>9, QuietKeepsRows
<1>10. ASSUME NEW s \in Slots, CashierAndGateway(s) \/ KitchenAndDesks(s) \/ GiveUp(s)
       PROVE  SameMoney \/ Collect(s) \/ CallbackApply(s) \/ ApproveRefund(s)
  BY <1>4, <1>5, <1>6, <1>7, <1>8, <1>9, <1>10
     DEF CashierAndGateway, KitchenAndDesks, Quiet
<1> QED BY <1>1, <1>2, <1>3, <1>10 DEF Next, RejectRefund, RejectCancel, vars

\* Rejecting is the one change of a refund that the figures do not see.
CalmRefunds ==
    \A r \in Refunds :
        /\ refund'[r].amt = refund[r].amt /\ refund'[r].items = refund[r].items
        /\ refund'[r].st = "APPROVED" <=> refund[r].st = "APPROVED"
        /\ refund'[r].st = "PENDING" => refund[r].st = "PENDING"
        /\ refund'[r].st # "NONE" => refund[r].st # "NONE"

Calm ==
    /\ SameMoney /\ CalmRefunds /\ UNCHANGED <<status, stock>>
    /\ payStatus' = "PAID" => payStatus = "PAID"

\* The stock and the order's mirror have few writers.
LEMMA OrderWriters ==
    ASSUME [Next]_vars
    PROVE  /\ \/ UNCHANGED stock
              \/ \E s \in Slots : Move(s) \/ ApproveRefund(s) \/ ApplyCancel(s)
           /\ \/ payStatus' = "PAID" => payStatus = "PAID"
              \/ \E s \in Slots : Collect(s) \/ CallbackApply(s) \/ ApproveRefund(s)
<1> USE DEF OrderUnchanged, MoneyUnchanged, UnlessPaid
<1>1. CASE UNCHANGED vars
  BY <1>1 DEF vars
<1>2. CASE CreateCashIntent
  BY <1>2 DEF CreateCashIntent
<1>3. ASSUME NEW p \in Payments, Lapse(p) PROVE UNCHANGED <<stock, payStatus>>
  BY <1>3 DEF Lapse
<1>4. ASSUME NEW s \in Slots, CashierAndGateway(s) \/ GiveUp(s)
      PROVE  UNCHANGED stock
  BY <1>4 DEF CashierAndGateway, CreateVaIntent, CreateQrisIntent, KasirQrisStart,
     PublicQrisStart, ExpireStale, RecheckActive, MirrorExpired, GatewayAccepts,
     GatewayRejects, MirrorGatewayFailure, SwitchStart, SwitchRecheck, SwitchInsert,
     CollectStart, Collect, CallbackStart, CallbackRead, CallbackApply, GiveUp
<1>5. ASSUME NEW s \in Slots, CashierAndGateway(s) \/ GiveUp(s)
      PROVE  \/ payStatus' = "PAID" => payStatus = "PAID"
             \/ Collect(s) \/ CallbackApply(s)
  BY <1>5 DEF CashierAndGateway, CreateVaIntent, CreateQrisIntent, ReuseQrisIntent,
     NewQrisIntent, KasirQrisStart,
     PublicQrisStart, ExpireStale, RecheckActive, MirrorExpired, GatewayAccepts,
     GatewayRejects, MirrorGatewayFailure, SwitchStart, SwitchRecheck, SwitchInsert,
     CollectStart, CallbackStart, CallbackRead, GiveUp
<1>6. ASSUME NEW s \in Slots, KitchenAndDesks(s)
      PROVE  /\ UNCHANGED stock \/ Move(s) \/ ApproveRefund(s) \/ ApplyCancel(s)
             /\ UNCHANGED payStatus \/ ApproveRefund(s)
  BY <1>6 DEF KitchenAndDesks, MoveStart, Move, RefundStart, InsertRefund, ReadForRefund,
     CancelStart, InsertCancel, DecideCancelStart, WeighCancel, ApplyCancel
<1>7. ASSUME NEW r \in Refunds, RejectRefund(r) PROVE UNCHANGED <<stock, payStatus>>
  BY <1>7 DEF RejectRefund
<1>8. ASSUME NEW c \in Cancels, RejectCancel(c) PROVE UNCHANGED <<stock, payStatus>>
  BY <1>8 DEF RejectCancel
<1> QED BY <1>1, <1>2, <1>3, <1>4, <1>5, <1>6, <1>7, <1>8 DEF Next

\* A step is calm, or one of the six that settle something.
Settles(s) ==
    \/ Collect(s) \/ CallbackApply(s) \/ Move(s)
    \/ InsertRefund(s) \/ ApproveRefund(s) \/ ApplyCancel(s)

\* Every other step is calm.
LEMMA CalmOrSettles ==
    ASSUME MoneyInv, [Next]_vars
    PROVE  Calm \/ \E s \in Slots : Settles(s)
<1> SUFFICES ASSUME ~\E s \in Slots : Settles(s) PROVE Calm
  OBVIOUS
<1>1. SameMoney
  BY MoneyWriters DEF Settles
<1>2. UNCHANGED status
  BY StatusWriters DEF Settles
<1>3. UNCHANGED stock /\ (payStatus' = "PAID" => payStatus = "PAID")
  BY OrderWriters DEF Settles
<1>4. UNCHANGED refund \/ \E r \in Refunds : RejectRefund(r)
  BY DeskWriters DEF Settles
<1>5. CalmRefunds
  BY <1>4 DEF RejectRefund, CalmRefunds, MoneyInv, TypeOK, RefundRow
<1> QED BY <1>1, <1>2, <1>3, <1>5 DEF Calm

\* A calm step keeps every figure.
LEMMA CalmFigures ==
    ASSUME TypeOK, TypeOK', SameMoney, CalmRefunds
    PROVE  /\ CollectedRows' = CollectedRows /\ RefundedRows' = RefundedRows
           /\ TotalPaid' = TotalPaid /\ RefundedPaid' = RefundedPaid
           /\ ApprovedAmount' = ApprovedAmount /\ ApprovedItems' = ApprovedItems
           /\ NetCollected' = NetCollected
           /\ AnyPaid' <=> AnyPaid
<1>1. CollectedRows' = CollectedRows /\ RefundedRows' = RefundedRows
  BY DEF SameMoney, CollectedRows, RefundedRows, CollectedStatuses
<1>2. TotalPaid' = TotalPaid /\ RefundedPaid' = RefundedPaid
  BY <1>1, FiguresMove DEF RefundedPaid
<1>3. ApprovedAmount' = ApprovedAmount /\ ApprovedItems' = ApprovedItems
  BY SameApproved DEF CalmRefunds
<1>4. AnyPaid' <=> AnyPaid
  BY DEF SameMoney, AnyPaid, IsPaid, CollectedStatuses
<1> QED BY <1>1, <1>2, <1>3, <1>4 DEF NetCollected

\* A calm step keeps both parts of the invariant.
LEMMA CalmKeeps ==
    ASSUME TypeOK, TypeOK', Calm, StockInv, HeldInv
    PROVE  StockInv' /\ HeldInv'
<1>1. /\ CollectedRows' = CollectedRows /\ RefundedRows' = RefundedRows
      /\ RefundedPaid' = RefundedPaid
      /\ ApprovedAmount' = ApprovedAmount /\ ApprovedItems' = ApprovedItems
      /\ NetCollected' = NetCollected
      /\ AnyPaid' <=> AnyPaid
  BY CalmFigures DEF Calm
<1>2. StockInv'
  BY <1>1 DEF StockInv, StockTaken, Calm
<1>3. HeldInv'
  <2>1. Total * Cardinality(RefundedRows') <= ApprovedAmount'
    BY <1>1 DEF HeldInv
  <2>2. status' \notin Terminal =>
          /\ RefundedRows' = {}
          /\ stock'.back > 0 => NetCollected' > 0
          /\ (\E r \in Refunds : refund'[r].st # "NONE") => CollectedRows' # {}
    BY <1>1 DEF HeldInv, Calm, CalmRefunds
  <2>3. \A r \in Refunds : refund'[r].st = "PENDING" /\ refund'[r].items =>
          refund'[r].amt + ApprovedItems' <= Total
    BY <1>1 DEF HeldInv, Calm, CalmRefunds
  <2>4. PaidMirrorIsBacked'
    BY <1>1 DEF HeldInv, PaidMirrorIsBacked, Calm
  <2> QED BY <2>1, <2>2, <2>3, <2>4 DEF HeldInv
<1> QED BY <1>2, <1>3

\* What a request read stays true while others only take calm steps.
LEMMA CalmKeepsRead ==
    ASSUME TypeOK, TypeOK', Calm, NEW s \in Slots, req'[s] = req[s], StillTrue(req[s])
    PROVE  StillTrue(req[s])'
<1> DEFINE r == req[s]
<1>1. /\ CollectedRows' = CollectedRows
      /\ ApprovedItems' = ApprovedItems
      /\ NetCollected' = NetCollected
  BY CalmFigures DEF Calm
<1>2. r.at = "callback" => ~IsPaid(r.p)'
  <2>1. r.at = "callback" => r.p \in Payments
    BY Carries
  <2> HIDE DEF r
  <2> QED BY <2>1 DEF Calm, SameMoney, IsPaid, StillTrue, CollectedStatuses, r
<1>3. r.at = "settleRefund" => refund'[r.r].amt = refund[r.r].amt
  BY Carries DEF Calm, CalmRefunds
<1> QED BY <1>1, <1>2, <1>3 DEF StillTrue, StockTaken, Calm

\* The phases that carry nothing another request could spoil.
Plain(r) == r.at \in {"idle", "gateway", "unwind", "check", "qris", "recheck", "insert",
                      "move", "askCancel"}

\* What a request reads in a calm step is true when it has read it.
LEMMA CalmReads ==
    ASSUME MoneyInv, TypeOK', Calm, NEW s \in Slots, StillTrue(req[s]),
           CashierAndGateway(s) \/ KitchenAndDesks(s) \/ GiveUp(s)
    PROVE  StillTrue(req[s])'
<1> USE DEF MoneyInv
<1> DEFINE Done == StillTrue(req[s])'
<1>1. \A r : Goto(s, r) => req'[s] = r
  BY DEF Goto, TypeOK
<1>2. Plain(req'[s]) => Done
  BY DEF Plain, StillTrue
<1>3. Goto(s, Idle) => Done
  BY <1>1, <1>2 DEF Idle, Plain
<1>4. /\ CollectedRows' = CollectedRows
      /\ ApprovedItems' = ApprovedItems
      /\ NetCollected' = NetCollected
      /\ UNCHANGED status
  BY CalmFigures DEF Calm
<1> SUFFICES Done
  OBVIOUS
<1> HIDE DEF Done
<1>5. CASE CreateVaIntent(s)
  BY <1>1, <1>2, <1>5 DEF CreateVaIntent, Plain
<1>6. CASE CreateQrisIntent(s)
  <2>1. \/ Goto(s, Idle)
        \/ \E n \in Payments : Goto(s, [at |-> "gateway", p |-> n])
    BY <1>6 DEF CreateQrisIntent, ReuseQrisIntent, NewQrisIntent
  <2>2. ASSUME NEW n, Goto(s, [at |-> "gateway", p |-> n]) PROVE Done
    BY <1>1, <1>2, <2>2 DEF Plain
  <2> QED BY <1>3, <2>1, <2>2
<1>7. CASE KasirQrisStart(s)
  <2>1. ASSUME NEW p \in Payments, req'[s] = [at |-> "expire", p |-> p, by |-> "cashier"]
        PROVE  Done
    BY <2>1 DEF StillTrue, Done
  <2> QED BY <1>1, <1>2, <1>7, <2>1 DEF KasirQrisStart, Plain, Created
<1>8. CASE PublicQrisStart(s)
  <2>1. payStatus' # "PAID"
    BY <1>8 DEF PublicQrisStart, Unsettled
  <2>2. ASSUME NEW p \in Payments, req'[s] = [at |-> "expire", p |-> p, by |-> "public"]
        PROVE  Done
    BY <2>1, <2>2 DEF StillTrue, Done
  <2>3. \/ \E p \in Payments : Goto(s, [at |-> "expire", p |-> p, by |-> "public"])
        \/ Goto(s, [at |-> "qris"])
    BY <1>8 DEF PublicQrisStart
  <2>4. CASE Goto(s, [at |-> "qris"])
    BY <1>1, <1>2, <2>4 DEF Plain
  <2> QED BY <1>1, <2>2, <2>3, <2>4
<1>9. CASE ExpireStale(s)
  <2>1. CASE req[s].by = "cashier"
    BY <1>1, <1>2, <1>9, <2>1 DEF ExpireStale, Plain
  <2>2. CASE req[s].by # "cashier"
    <3>1. req[s].by = "public"
      BY <1>9, <2>2, Carries DEF ExpireStale
    <3>2. payStatus' # "PAID" /\ req'[s] = [at |-> "mirror"]
      BY <1>1, <1>9, <2>2, <3>1 DEF ExpireStale, StillTrue
    <3> QED BY <3>2 DEF StillTrue, Done
  <2> QED BY <2>1, <2>2
<1>10. CASE RecheckActive(s) \/ MirrorExpired(s)
  BY <1>1, <1>2, <1>3, <1>10 DEF RecheckActive, MirrorExpired, Plain
<1>11. CASE GatewayAccepts(s) \/ GatewayRejects(s) \/ MirrorGatewayFailure(s)
  BY <1>1, <1>2, <1>3, <1>11 DEF GatewayAccepts, GatewayRejects, MirrorGatewayFailure, Plain
<1>12. CASE SwitchStart(s)
  BY <1>1, <1>2, <1>12 DEF SwitchStart, Plain
<1>13. CASE SwitchRecheck(s) \/ SwitchInsert(s)
  BY <1>1, <1>2, <1>3, <1>13 DEF SwitchRecheck, SwitchInsert, Plain
<1>14. CASE CollectStart(s)
  <2>1. ASSUME NEW p, NEW adv, adv => status \in {"PENDING", "CONFIRMED"},
               req'[s] = [at |-> "collect", p |-> p, adv |-> adv]
        PROVE  Done
    BY <1>4, <2>1 DEF StillTrue, Done
  <2> QED BY <1>1, <1>14, <2>1 DEF CollectStart, EntersKitchen
<1>15. CASE CallbackStart(s)
  <2>1. ASSUME NEW p \in Payments, NEW res, ~IsPaid(p), UNCHANGED pay,
               req'[s] = [at |-> "callback", p |-> p, res |-> res]
        PROVE  Done
    BY <2>1 DEF StillTrue, Done, IsPaid
  <2> QED BY <1>1, <1>15, <2>1 DEF CallbackStart, Processed, Created
<1>16. CASE CallbackRead(s)
  <2>1. pay[req[s].p].st # "PAID"
    BY <1>16 DEF CallbackRead, StillTrue, IsPaid
  <2>2. ASSUME NEW p, NEW res, NEW cur, cur # "PAID",
               req'[s] = [at |-> "callbackTx", p |-> p, res |-> res, cur |-> cur]
        PROVE  Done
    BY <2>2 DEF StillTrue, Done
  <2> QED BY <1>1, <1>3, <1>16, <2>1, <2>2 DEF CallbackRead
<1>17. CASE Collect(s) \/ CallbackApply(s)
  BY <1>3, <1>17 DEF Collect, CallbackApply
<1>18. CASE MoveStart(s) \/ Move(s)
  <2>1. \/ Goto(s, Idle)
        \/ \E to : Goto(s, [at |-> "move", from |-> status, to |-> to])
    BY <1>18 DEF MoveStart, Move
  <2>2. ASSUME NEW to, Goto(s, [at |-> "move", from |-> status, to |-> to]) PROVE Done
    BY <1>1, <1>2, <2>2 DEF Plain
  <2> QED BY <1>3, <2>1, <2>2
<1>19. CASE RefundStart(s)
  <2>1. PICK amt \in 1..Total, items \in BOOLEAN :
          /\ items => amt <= Total - ApprovedItems
          /\ req'[s] = [at |-> "askRefund", amt |-> amt, items |-> items]
    BY <1>1, <1>19 DEF RefundStart
  <2>2. CollectedRows # {}
    BY <1>19, Figures DEF RefundStart
  <2>3. items => amt + ApprovedItems <= Total
    BY <2>1, Figures, BoundsAssumption
  <2> QED BY <1>4, <2>1, <2>2, <2>3 DEF StillTrue, Done
<1>20. CASE InsertRefund(s) \/ ApproveRefund(s)
  BY <1>3, <1>20 DEF InsertRefund, ApproveRefund
<1>21. CASE ReadForRefund(s)
  <2>1. PICK r \in Refunds :
          req'[s] = [at |-> "settleRefund", r |-> r, had |-> TotalPaid > 0,
                     holds |-> NetCollected > refund[r].amt]
    BY <1>1, <1>21 DEF ReadForRefund
  <2>2. TotalPaid > 0 <=> CollectedRows # {}
    BY Figures
  <2>3. refund'[r].amt = refund[r].amt
    BY DEF Calm, CalmRefunds
  <2>4. req'[s].at = "settleRefund" /\ req'[s].r = r
    BY <2>1
  <2> DEFINE had == TotalPaid > 0
             holds == NetCollected > refund[r].amt
  <2>5. req'[s] = [at |-> "settleRefund", r |-> r, had |-> had, holds |-> holds]
    BY <2>1
  <2> HIDE DEF had, holds
  <2>6. (req'[s].had <=> had) /\ (req'[s].holds <=> holds)
    BY <2>5
  <2> QED BY <1>4, <2>2, <2>3, <2>4, <2>6 DEF StillTrue, Done, had, holds
<1>22. CASE CancelStart(s)
  BY <1>1, <1>2, <1>22 DEF CancelStart, Plain
<1>23. CASE InsertCancel(s) \/ ApplyCancel(s) \/ GiveUp(s)
  BY <1>3, <1>23 DEF InsertCancel, ApplyCancel, GiveUp
<1>24. CASE DecideCancelStart(s)
  <2>1. ASSUME NEW c, req'[s] = [at |-> "weighCancel", c |-> c, ready |-> StockTaken]
        PROVE  Done
    <3>1. req'[s].at = "weighCancel" /\ (req'[s].ready <=> StockTaken)
      BY <2>1
    <3>2. StockTaken' = StockTaken
      BY <1>4 DEF StockTaken
    <3> QED BY <3>1, <3>2 DEF StillTrue, Done
  <2> QED BY <1>1, <1>24, <2>1 DEF DecideCancelStart
<1>25. CASE WeighCancel(s)
  <2>1. /\ req[s].ready <=> StockTaken
        /\ NetCollected <= 0
    BY <1>25 DEF WeighCancel, StillTrue
  <2>2. req'[s].at = "applyCancel" /\ req'[s].ready = req[s].ready
    BY <1>1, <1>25, Carries DEF WeighCancel
  <2> QED BY <1>4, <2>1, <2>2 DEF StillTrue, Done, StockTaken
<1> QED BY <1>5, <1>6, <1>7, <1>8, <1>9, <1>10, <1>11, <1>12, <1>13, <1>14, <1>15, <1>16,
           <1>17, <1>18, <1>19, <1>20, <1>21, <1>22, <1>23, <1>24, <1>25
        DEF Done, CashierAndGateway, KitchenAndDesks

-----------------------------------------------------------------------------
(* The six handlers that settle something *)

\* Money that comes in, or a row a callback reports on again.
LEMMA MoneyInKeeps ==
    ASSUME TypeOK, TypeOK', StockInv, HeldInv, UNCHANGED <<refund, stock>>,
           RefundedRows' \subseteq RefundedRows,
           status \notin Terminal => CollectedRows \subseteq CollectedRows',
           \/ UNCHANGED status
           \/ status \in {"PENDING", "CONFIRMED"} /\ status' = "PROCESSING",
           PaidMirrorIsBacked'
    PROVE  StockInv' /\ HeldInv'
<1>1. ApprovedAmount' = ApprovedAmount /\ ApprovedItems' = ApprovedItems
  BY SameApproved
<1>2. RefundedPaid' <= RefundedPaid
  BY FiguresMove
<1>3. status \notin Terminal => NetCollected <= NetCollected'
  BY <1>1, Figures, FiguresNext, FiguresMove
<1>4. StockInv'
  BY <1>1 DEF StockInv, StockTaken
<1>5. HeldInv'
  <2>1. Total * Cardinality(RefundedRows') <= ApprovedAmount'
    BY <1>1, <1>2, Figures, FiguresNext DEF HeldInv, RefundedPaid
  <2>2. status' \notin Terminal => status \notin Terminal
    BY DEF Terminal
  <2>3. status' \notin Terminal =>
          /\ RefundedRows' = {}
          /\ stock'.back > 0 => NetCollected' > 0
          /\ (\E r \in Refunds : refund'[r].st # "NONE") => CollectedRows' # {}
    BY <1>3, <2>2, Figures, FiguresNext DEF HeldInv
  <2>4. \A r \in Refunds : refund'[r].st = "PENDING" /\ refund'[r].items =>
          refund'[r].amt + ApprovedItems' <= Total
    BY <1>1 DEF HeldInv
  <2> QED BY <2>1, <2>3, <2>4 DEF HeldInv
<1> QED BY <1>4, <1>5

\* A collection pays one row, and starts only an order that waits for it.
LEMMA CollectKeeps ==
    ASSUME MoneyInv, TypeOK', NEW s \in Slots, Collect(s), StockInv, HeldInv,
           StillTrue(req[s])
    PROVE  /\ StockInv' /\ HeldInv'
           /\ \A p \in Payments : IsPaid(p) => IsPaid(p)'
<1> DEFINE p == req[s].p
<1>1. p \in Payments /\ pay \in [Payments -> PaymentRow]
  BY Carries DEF MoneyInv, Collect, TypeOK
<1>2. UNCHANGED <<refund, stock>>
  BY DEF Collect
<1>3. CASE pay[p].st # "UNPAID"
  <2>1. UNCHANGED <<pay, payStatus, status>>
    BY <1>3 DEF Collect, Taken
  <2>2. /\ RefundedRows' = RefundedRows /\ CollectedRows' = CollectedRows
        /\ \A q \in Payments : IsPaid(q) <=> IsPaid(q)'
    BY <2>1 DEF RefundedRows, CollectedRows, IsPaid
  <2>3. PaidMirrorIsBacked'
    BY <2>1, <2>2 DEF HeldInv, PaidMirrorIsBacked, AnyPaid
  <2> QED BY <1>2, <2>1, <2>2, <2>3, MoneyInKeeps DEF MoneyInv
<1>4. CASE pay[p].st = "UNPAID"
  <2>1. /\ pay' = [pay EXCEPT ![p].st = "PAID", ![p].taken = @ + 1]
        /\ status' = IF req[s].adv THEN "PROCESSING" ELSE status
    BY <1>4 DEF Collect, Taken
  <2>2. /\ pay'[p].st = "PAID"
        /\ \A q \in Payments : q # p => pay'[q] = pay[q]
    BY <1>1, <2>1 DEF PaymentRow
  <2>3. /\ RefundedRows' \subseteq RefundedRows /\ CollectedRows \subseteq CollectedRows'
        /\ \A q \in Payments : IsPaid(q) => IsPaid(q)'
        /\ AnyPaid'
    BY <1>1, <1>4, <2>2 DEF RefundedRows, CollectedRows, CollectedStatuses, IsPaid, AnyPaid
  <2>4. \/ UNCHANGED status
        \/ status \in {"PENDING", "CONFIRMED"} /\ status' = "PROCESSING"
    BY <2>1 DEF StillTrue, Collect
  <2>5. PaidMirrorIsBacked'
    BY <2>3 DEF PaidMirrorIsBacked
  <2> HIDE DEF p
  <2> QED BY <1>2, <2>3, <2>4, <2>5, MoneyInKeeps DEF MoneyInv
<1> QED BY <1>3, <1>4

\* A callback moves a row that was not PAID.
LEMMA CallbackKeeps ==
    ASSUME MoneyInv, TypeOK', NEW s \in Slots, CallbackApply(s), StockInv, HeldInv,
           StillTrue(req[s])
    PROVE  /\ StockInv' /\ HeldInv'
           /\ \A p \in Payments : IsPaid(p) => IsPaid(p)'
           /\ payStatus = "PAID" => payStatus' = "PAID"
<1> DEFINE p == req[s].p
           cur == req[s].cur
           res == req[s].res
<1>1. /\ p \in Payments /\ cur # "PAID"
      /\ res \in {"PAID", "FAILED", "EXPIRED", "CANCELLED"}
  BY Carries, CallbacksAssumption DEF MoneyInv, CallbackApply, StillTrue
<1>2. UNCHANGED <<refund, stock, status>>
  BY DEF CallbackApply, OrderUnchanged
<1>3. CASE pay[p].st # cur
  <2>1. UNCHANGED <<pay, payStatus>>
    BY <1>3 DEF CallbackApply
  <2>2. /\ RefundedRows' = RefundedRows /\ CollectedRows' = CollectedRows
        /\ \A q \in Payments : IsPaid(q) <=> IsPaid(q)'
    BY <2>1 DEF RefundedRows, CollectedRows, IsPaid
  <2>3. PaidMirrorIsBacked'
    BY <2>1, <2>2 DEF HeldInv, PaidMirrorIsBacked, AnyPaid
  <2> HIDE DEF p, cur, res
  <2> QED BY <1>2, <2>1, <2>2, <2>3, MoneyInKeeps DEF MoneyInv
<1>4. CASE pay[p].st = cur
  <2>1. /\ pay' = SetStatus({p}, res)
        /\ payStatus' = IF payStatus = cur THEN res ELSE payStatus
    BY <1>4 DEF CallbackApply
  <2>2. /\ pay'[p].st = res
        /\ \A q \in Payments : q # p => pay'[q] = pay[q]
    <3>1. res \in PaymentStatus
      BY <1>1 DEF PaymentStatus
    <3>2. [pay[p] EXCEPT !.st = res].st = res
      BY <1>1 DEF MoneyInv, TypeOK, PaymentRow
    <3>3. \A q \in Payments : pay'[q] = IF q \in {p} THEN [pay[q] EXCEPT !.st = res]
                                                    ELSE pay[q]
      <4>1. \A q \in Payments :
              SetStatus({p}, res)[q] = IF q \in {p} THEN [pay[q] EXCEPT !.st = res] ELSE pay[q]
        BY <3>1, SetStatusRows DEF MoneyInv
      <4> QED BY <2>1, <4>1
    <3> HIDE DEF p, res
    <3> QED BY <1>1, <3>2, <3>3
  <2> HIDE DEF p, cur, res
  <2>3. /\ RefundedRows' \subseteq RefundedRows
        /\ \A q \in Payments : IsPaid(q) => IsPaid(q)'
        /\ res = "PAID" => AnyPaid'
    BY <1>1, <1>4, <2>2 DEF RefundedRows, IsPaid, AnyPaid
  <2>4. status \notin Terminal => CollectedRows \subseteq CollectedRows'
    <3>1. status \notin Terminal => pay[p].st \notin CollectedStatuses
      BY <1>1, <1>4 DEF HeldInv, RefundedRows, CollectedStatuses
    <3> QED BY <2>2, <3>1 DEF CollectedRows
  <2>5. PaidMirrorIsBacked'
    BY <2>1, <2>3 DEF HeldInv, PaidMirrorIsBacked, AnyPaid
  <2>6. payStatus = "PAID" => payStatus' = "PAID"
    BY <1>1, <2>1
  <2> QED BY <1>2, <2>3, <2>4, <2>5, <2>6, MoneyInKeeps DEF MoneyInv
<1> QED BY <1>3, <1>4

\* The kitchen takes the stock on the way to READY, and only then.
LEMMA MoveKeeps ==
    ASSUME MoneyInv, MovesListed, TypeOK', NEW s \in Slots, Move(s), StockInv, HeldInv
    PROVE  StockInv' /\ HeldInv'
<1>1. /\ UNCHANGED <<payStatus, pay, refund>>
      /\ status' \in ValidStatusTransitions[status]
      /\ stock' = IF Deducts(status, status') THEN [stock EXCEPT !.out = @ + Total]
                                              ELSE stock
  BY DEF Move, MoneyUnchanged, StillAt, MovesListed
<1>2. status \in OrderStatus /\ stock \in [out : Nat, back : Nat] /\ Total \in Nat \ {0}
  BY BoundsAssumption DEF MoneyInv, TypeOK
<1>3. SameMoney /\ CalmRefunds
  BY <1>1 DEF SameMoney, CalmRefunds
<1>4. /\ CollectedRows' = CollectedRows /\ RefundedRows' = RefundedRows
      /\ ApprovedAmount' = ApprovedAmount /\ ApprovedItems' = ApprovedItems
      /\ NetCollected' = NetCollected
      /\ AnyPaid' <=> AnyPaid
  BY <1>3, CalmFigures DEF MoneyInv
<1>5. \/ status \in {"PENDING", "CONFIRMED", "PROCESSING"} /\ status' = "CANCELLED"
      \/ status = "PENDING" /\ status' = "CONFIRMED"
      \/ status = "CONFIRMED" /\ status' = "PROCESSING"
      \/ status = "PROCESSING" /\ status' = "READY"
      \/ status = "READY" /\ status' = "COMPLETED"
  BY <1>1, <1>2 DEF ValidStatusTransitions, OrderStatus
<1>6. /\ stock'.back = stock.back
      /\ stock'.out = IF status' = "READY" THEN Total ELSE stock.out
  BY <1>1, <1>2, <1>5 DEF Deducts, StockInv, StockTaken
<1>7. StockInv'
  <2>1. stock.out <= Total
    BY DEF StockInv
  <2> QED BY <1>2, <1>4, <1>5, <1>6, <2>1 DEF StockInv, StockTaken
<1>8. HeldInv'
  <2>1. status' \notin Terminal => status \notin Terminal
    BY <1>5 DEF Terminal
  <2>2. PaidMirrorIsBacked'
    BY <1>1, <1>4 DEF HeldInv, PaidMirrorIsBacked
  <2> QED BY <1>1, <1>4, <1>6, <2>1, <2>2 DEF HeldInv
<1> QED BY <1>7, <1>8

\* A refund asked for is within what the order still has.
LEMMA InsertRefundKeeps ==
    ASSUME MoneyInv, TypeOK', NEW s \in Slots, InsertRefund(s), StockInv, HeldInv,
           StillTrue(req[s])
    PROVE  StockInv' /\ HeldInv'
<1>1. PICK r \in Refunds :
         /\ {q \in Refunds : refund[q].st # "NONE"} = 1..(r - 1)
         /\ refund' = [refund EXCEPT ![r] =
               [st |-> "PENDING", amt |-> req[s].amt, items |-> req[s].items, back |-> 0]]
  BY DEF InsertRefund
<1>2. refund[r].st = "NONE"
  BY <1>1 DEF Refunds
<1>3. UNCHANGED <<status, stock, payStatus, pay>>
  BY DEF InsertRefund
<1>4. /\ refund'[r].st = "PENDING" /\ refund'[r].amt = req[s].amt
      /\ refund'[r].items = req[s].items
      /\ \A t \in Refunds : t # r => refund'[t] = refund[t]
  BY <1>1 DEF MoneyInv, TypeOK
<1>5. ApprovedAmount' = ApprovedAmount /\ ApprovedItems' = ApprovedItems
  <2>1. \A t \in Refunds : /\ refund'[t].st = "APPROVED" <=> refund[t].st = "APPROVED"
                           /\ refund[t].st = "APPROVED" =>
                                 /\ refund'[t].amt = refund[t].amt
                                 /\ refund'[t].items = refund[t].items
    BY <1>2, <1>4
  <2> QED BY <2>1, SameApproved DEF MoneyInv
<1>6. /\ CollectedRows' = CollectedRows /\ RefundedRows' = RefundedRows
      /\ TotalPaid' = TotalPaid
      /\ AnyPaid' <=> AnyPaid
  BY <1>3 DEF CollectedRows, RefundedRows, TotalPaid, AnyPaid, IsPaid
<1>7. NetCollected' = NetCollected
  BY <1>5, <1>6 DEF NetCollected
<1>8. StockInv'
  BY <1>3, <1>5 DEF StockInv, StockTaken
<1>9. /\ status \notin Terminal => CollectedRows # {}
      /\ req[s].items => req[s].amt + ApprovedItems <= Total
  BY DEF StillTrue, InsertRefund
<1>10. \A t \in Refunds : refund'[t].st = "PENDING" /\ refund'[t].items =>
          refund'[t].amt + ApprovedItems' <= Total
  BY <1>4, <1>5, <1>9 DEF HeldInv
<1>11. PaidMirrorIsBacked'
  BY <1>3, <1>6 DEF HeldInv, PaidMirrorIsBacked
<1> QED BY <1>3, <1>5, <1>6, <1>7, <1>8, <1>9, <1>10, <1>11 DEF HeldInv

\* An approved refund gives back what was weighed: the rows when nothing is held any
\* more, the items as long as the order has their stock.
LEMMA ApproveRefundKeeps ==
    ASSUME MoneyInv, OneOpenRequest, TypeOK', NEW s \in Slots, ApproveRefund(s),
           StockInv, HeldInv, StillTrue(req[s])
    PROVE  /\ StockInv' /\ HeldInv'
           /\ \A p \in Payments : IsPaid(p) => pay'[p].st \in CollectedStatuses
           /\ \E r \in Refunds : refund'[r].st # refund[r].st
<1> DEFINE r == req[s].r
           had == req[s].had
           holds == req[s].holds
           amt == refund[r].amt
           paid == {p \in Payments : IsPaid(p)}
           cancels == had /\ ~holds /\ status \notin Terminal
<1>1. /\ r \in Refunds /\ refund[r] \in RefundRow /\ amt \in 0..Total
      /\ had \in BOOLEAN /\ holds \in BOOLEAN
  BY Carries DEF MoneyInv, TypeOK, ApproveRefund, RefundRow
<1>2. /\ had <=> CollectedRows # {}
      /\ holds <=> NetCollected > amt
  BY DEF StillTrue, ApproveRefund
<1>3. /\ refund[r].st = "PENDING"
      /\ pay' = IF holds THEN pay ELSE SetStatus(paid, "REFUNDED")
      /\ payStatus' = IF holds THEN "PAID" ELSE "UNPAID"
      /\ stock' = IF refund[r].items /\ StockTaken THEN Restore(amt) ELSE stock
      /\ status' = IF cancels THEN "CANCELLED" ELSE status
  BY DEF ApproveRefund, Undecided, MirrorAfterRefund
<1>4. /\ refund'[r].st = "APPROVED" /\ refund'[r].amt = refund[r].amt
      /\ refund'[r].items = refund[r].items
      /\ \A t \in Refunds : t # r => refund'[t] = refund[t]
  <2> DEFINE n == refund[r].back + IF had THEN 1 ELSE 0
  <2>1. refund' = [refund EXCEPT ![r] = [refund[r] EXCEPT !.st = "APPROVED", !.back = n]]
    BY DEF ApproveRefund
  <2> HIDE DEF n, r
  <2> QED BY <1>1, <2>1 DEF MoneyInv, TypeOK, RefundRow
<1> HIDE DEF r, had, holds
<1>5. /\ ApprovedAmount' = ApprovedAmount + amt
      /\ ApprovedItems' = ApprovedItems + IF refund[r].items THEN amt ELSE 0
  BY <1>1, <1>3, <1>4, OneMoreApproved DEF MoneyInv
<1>6. ~holds => \A p \in Payments :
                   pay'[p].st = IF pay[p].st = "PAID" THEN "REFUNDED" ELSE pay[p].st
  <2> SUFFICES ASSUME ~holds
               PROVE  \A p \in Payments :
                         pay'[p].st = IF pay[p].st = "PAID" THEN "REFUNDED" ELSE pay[p].st
    OBVIOUS
  <2>1. pay' = SetStatus(paid, "REFUNDED")
    BY <1>3
  <2>2. \A p \in Payments :
           SetStatus(paid, "REFUNDED")[p] = IF p \in paid THEN [pay[p] EXCEPT !.st = "REFUNDED"]
                                                           ELSE pay[p]
    BY SetStatusRows DEF MoneyInv, PaymentStatus
  <2>3. \A p \in Payments : pay[p] \in PaymentRow /\ (p \in paid <=> pay[p].st = "PAID")
    BY DEF MoneyInv, TypeOK, IsPaid
  <2> HIDE DEF paid
  <2> QED BY <2>1, <2>2, <2>3 DEF PaymentRow
<1>7. /\ CollectedRows' = CollectedRows
      /\ \A p \in Payments : IsPaid(p) => pay'[p].st \in CollectedStatuses
      /\ holds => /\ RefundedRows' = RefundedRows /\ RefundedPaid' = RefundedPaid
                  /\ AnyPaid' <=> AnyPaid
      /\ ~holds => RefundedRows' = CollectedRows
  <2>1. CASE holds
    BY <1>3, <2>1 DEF CollectedRows, IsPaid, CollectedStatuses, RefundedRows, RefundedPaid, AnyPaid
  <2>2. CASE ~holds
    BY <1>6, <2>2 DEF CollectedRows, IsPaid, CollectedStatuses, RefundedRows
  <2> QED BY <2>1, <2>2
<1> HIDE DEF amt, paid, cancels
<1>8. amt \in Nat /\ Total \in Nat /\ TotalPaid' = TotalPaid
  BY <1>1, <1>7, BoundsAssumption, FiguresMove
<1>9. NetCollected' = NetCollected - amt
  BY <1>5, <1>8, Figures, FiguresNext DEF MoneyInv
<1>10. RefundedPaid' <= ApprovedAmount'
  <2>1. CASE holds
    BY <1>5, <1>7, <1>8, <2>1, Figures DEF HeldInv, RefundedPaid, MoneyInv
  <2>2. CASE ~holds
    BY <1>2, <1>5, <1>7, <1>8, <2>2, Figures, FiguresMove DEF MoneyInv
  <2> QED BY <2>1, <2>2
<1>11. status' \notin Terminal => holds /\ status \notin Terminal /\ CollectedRows # {}
  <2>1. status' \notin Terminal => status \notin Terminal /\ ~cancels
    BY <1>3 DEF Terminal
  <2>2. status \notin Terminal => CollectedRows # {}
    BY <1>1, <1>3 DEF HeldInv
  <2> QED BY <1>2, <2>1, <2>2 DEF cancels
<1>12. holds => AnyPaid'
  BY <1>2, <1>7, <1>8, Figures DEF HeldInv, RefundedPaid, MoneyInv
<1>13. HeldInv'
  <2>1. status' \notin Terminal => /\ RefundedRows' = {}
                                   /\ NetCollected' > 0
                                   /\ CollectedRows' # {}
    BY <1>2, <1>7, <1>8, <1>9, <1>11, Figures DEF HeldInv, MoneyInv
  <2>2. \A t \in Refunds : refund'[t].st # "PENDING"
    BY <1>1, <1>3, <1>4 DEF OneOpenRequest
  <2>3. PaidMirrorIsBacked'
    BY <1>3, <1>12 DEF PaidMirrorIsBacked
  <2>4. Total * Cardinality(RefundedRows') <= ApprovedAmount'
    BY <1>10 DEF RefundedPaid
  <2> QED BY <2>1, <2>2, <2>3, <2>4 DEF HeldInv
<1>14. StockInv'
  <2>1. stock \in [out : Nat, back : Nat] /\ ApprovedItems \in Nat
    BY Figures DEF MoneyInv, TypeOK
  <2>2. /\ stock'.out = stock.out
        /\ stock'.back = stock.back + IF refund[r].items /\ StockTaken THEN amt ELSE 0
    BY <1>3, <1>8, <2>1 DEF Restore
  <2>3. refund[r].items => amt + ApprovedItems <= Total
    BY <1>1, <1>3 DEF HeldInv, amt
  <2>4. StockTaken => status # "CANCELLED"
    BY DEF StockTaken
  <2>5. stock'.back <= stock'.out
    BY <1>8, <2>1, <2>2, <2>3, <2>4 DEF StockInv
  <2>6. status # "CANCELLED" => stock'.back <= ApprovedItems'
    BY <1>5, <1>8, <2>1, <2>2 DEF StockInv
  <2>7. status' = status \/ status' = "CANCELLED"
    BY <1>3
  <2> QED BY <2>2, <2>5, <2>6, <2>7 DEF StockInv, StockTaken
<1>15. refund'[r].st # refund[r].st
  BY <1>3, <1>4
<1> QED BY <1>1, <1>7, <1>13, <1>14, <1>15

\* A cancellation leaves collected rows alone.
LEMMA CancelTakesNone ==
    ASSUME MoneyInv, NEW s \in Slots, ApplyCancel(s)
    PROVE  SameMoney
<1> DEFINE open == {p \in Payments : pay[p].st \in {"UNPAID", "PENDING"}}
<1>1. pay' = SetStatus(open, "FAILED")
  BY DEF ApplyCancel
<1>2. /\ \A p \in Payments \cap open : pay[p].st \notin CollectedStatuses
      /\ "FAILED" \in PaymentStatus \ CollectedStatuses
  BY DEF CollectedStatuses, PaymentStatus
<1> HIDE DEF open
<1> QED BY <1>1, <1>2, SetStatusSame DEF MoneyInv

\* A cancelled order holds no money, so it gave no stock back before; now it gives all.
LEMMA ApplyCancelKeeps ==
    ASSUME MoneyInv, SameMoney, TypeOK', NEW s \in Slots, ApplyCancel(s), StockInv, HeldInv,
           StillTrue(req[s])
    PROVE  StockInv' /\ HeldInv' /\ stock'.back = stock'.out
<1>1. /\ UNCHANGED <<payStatus, refund>> /\ status' = "CANCELLED"
      /\ status \notin Terminal
      /\ stock' = IF req[s].ready THEN Restore(Total) ELSE stock
  BY DEF ApplyCancel
<1>2. NetCollected <= 0 /\ (req[s].ready <=> StockTaken)
  BY DEF ApplyCancel, StillTrue
<1>3. CalmRefunds
  BY <1>1 DEF CalmRefunds
<1>4. /\ RefundedPaid' = RefundedPaid
      /\ ApprovedAmount' = ApprovedAmount /\ ApprovedItems' = ApprovedItems
      /\ AnyPaid' <=> AnyPaid
  BY <1>3, CalmFigures DEF MoneyInv
<1>5. /\ stock \in [out : Nat, back : Nat] /\ Total \in Nat /\ status \in OrderStatus
      /\ NetCollected \in Int
  BY BoundsAssumption, Figures DEF MoneyInv, TypeOK
<1>6. stock.back = 0
  BY <1>1, <1>2, <1>5 DEF HeldInv
<1>7. /\ stock'.out = stock.out /\ stock'.back = stock'.out
      /\ stock'.out <= Total
  <2>1. CASE StockTaken
    BY <1>1, <1>2, <1>5, <1>6, <2>1 DEF StockInv, Restore
  <2>2. CASE ~StockTaken
    <3>1. status \in {"PENDING", "CONFIRMED", "PROCESSING"}
      BY <1>1, <1>5, <2>2 DEF StockTaken, OrderStatus, Terminal
    <3> QED BY <1>1, <1>2, <1>5, <1>6, <2>2, <3>1 DEF StockInv
  <2> QED BY <2>1, <2>2
<1>8. StockInv'
  BY <1>1, <1>5, <1>7 DEF StockInv, StockTaken
<1>9. HeldInv'
  <2>1. Total * Cardinality(RefundedRows') <= ApprovedAmount'
    BY <1>4 DEF HeldInv, RefundedPaid
  <2>2. status' \in Terminal
    BY <1>1 DEF Terminal
  <2>3. \A r \in Refunds : refund'[r].st = "PENDING" /\ refund'[r].items =>
          refund'[r].amt + ApprovedItems' <= Total
    BY <1>1, <1>4 DEF HeldInv
  <2>4. PaidMirrorIsBacked'
    BY <1>1, <1>4 DEF HeldInv, PaidMirrorIsBacked
  <2> QED BY <2>1, <2>2, <2>3, <2>4 DEF HeldInv
<1> QED BY <1>7, <1>8, <1>9

-----------------------------------------------------------------------------
(* What the code promises, when requests do not overlap *)

\* A new order satisfies the invariant.
LEMMA SequentialStart == Init => SequentialInv
<1> SUFFICES ASSUME Init PROVE SequentialInv
  OBVIOUS
<1>1. TypeOK
  BY RowStart DEF MoneyInv
<1>2. \A p \in Payments : pay[p].st \in {"NONE", "UNPAID"}
  BY DEF Init, NoPayment, NewRow
<1>3. RefundedRows = {}
  BY <1>2 DEF RefundedRows
<1>4. StockInv
  BY <1>1, Figures, BoundsAssumption DEF Init, StockInv, StockTaken
<1>5. HeldInv
  <2>1. Total * Cardinality(RefundedRows) <= ApprovedAmount
    BY <1>1, <1>3, Figures DEF RefundedPaid
  <2>2. \A r \in Refunds : refund[r].st = "NONE"
    BY DEF Init, NoRefund
  <2> QED BY <1>3, <2>1, <2>2 DEF Init, HeldInv, PaidMirrorIsBacked
<1>6. \A s \in Slots : StillTrue(req[s])
  BY DEF Init, Idle, StillTrue
<1> QED BY <1>4, <1>5, <1>6 DEF SequentialInv

\* A settling request is done.
LEMMA SettlesEnds ==
    ASSUME TypeOK, NEW s \in Slots, Settles(s)
    PROVE  req'[s] = Idle
BY DEF TypeOK, Settles, Collect, CallbackApply, Move, InsertRefund, ApproveRefund,
       ApplyCancel, Goto

\* Whatever a request settles, it settles on what is still true.
LEMMA SettlesKeeps ==
    ASSUME MoneyInv, MovesListed, OneOpenRequest, TypeOK', [Next]_vars,
           NEW s \in Slots, Settles(s), StockInv, HeldInv, StillTrue(req[s])
    PROVE  StockInv' /\ HeldInv'
<1>1. CASE ApplyCancel(s)
  <2>1. SameMoney
    BY <1>1, CancelTakesNone
  <2> QED BY <1>1, <2>1, ApplyCancelKeeps
<1> QED BY <1>1, CollectKeeps, CallbackKeeps, MoveKeeps, InsertRefundKeeps, ApproveRefundKeeps
        DEF Settles

\* Every step keeps the invariant.
LEMMA NextSequential ==
    ASSUME OneAtATime, MoneyInv, MovesListed, OneOpenRequest, SequentialInv, [Next]_vars
    PROVE  SequentialInv'
<1>1. TypeOK /\ TypeOK'
  BY NextTyped DEF MoneyInv
<1>2. StockInv /\ HeldInv /\ \A s \in Slots : StillTrue(req[s])
  BY DEF SequentialInv
<1>3. CASE Calm
  <2>1. StockInv' /\ HeldInv'
    BY <1>1, <1>2, <1>3, CalmKeeps
  <2>2. ASSUME UNCHANGED req, NEW s \in Slots PROVE StillTrue(req[s])'
    BY <1>1, <1>2, <1>3, <2>2, CalmKeepsRead
  <2>3. ASSUME NEW s \in Slots, CashierAndGateway(s) \/ KitchenAndDesks(s) \/ GiveUp(s),
               NEW t \in Slots
        PROVE  StillTrue(req[t])'
    <3>1. StillTrue(req[s])'
      BY <1>1, <1>2, <1>3, <2>3, CalmReads
    <3>2. s = t
      BY DEF OneAtATime
    <3> QED BY <3>1, <3>2
  <2>4. \/ UNCHANGED req
        \/ \E s \in Slots : CashierAndGateway(s) \/ KitchenAndDesks(s) \/ GiveUp(s)
    BY DEF Next, CreateCashIntent, Lapse, RejectRefund, RejectCancel, vars
  <2>5. \A s \in Slots : StillTrue(req[s])'
    BY <2>2, <2>3, <2>4
  <2> QED BY <2>1, <2>5 DEF SequentialInv
<1>4. ASSUME NEW s \in Slots, Settles(s) PROVE SequentialInv'
  <2>1. StockInv' /\ HeldInv'
    BY <1>1, <1>2, <1>4, SettlesKeeps
  <2>2. ASSUME NEW t \in Slots PROVE StillTrue(req[t])'
    <3>1. req'[t] = Idle
      BY <1>1, <1>4, SettlesEnds DEF OneAtATime
    <3> QED BY <3>1 DEF StillTrue, Idle
  <2> QED BY <2>1, <2>2 DEF SequentialInv
<1> QED BY <1>3, <1>4, CalmOrSettles

\* When requests do not overlap, the stock follows the order, what was refunded in
\* full is covered by approved refunds, and what a request read is still true when
\* it writes: the invariant every theorem below rests on.
THEOREM SequentialKept ==
    ASSUME OneAtATime
    PROVE  Spec => [](SequentialInv /\ MovesListed)
<1>1. Init => SequentialInv /\ MovesListed
  BY SequentialStart DEF Init, MovesListed, Idle
<1>2. SequentialInv /\ MovesListed /\ MoneyInv /\ OneOpenRequest /\ [Next]_vars
         => (SequentialInv /\ MovesListed)'
  BY NextSequential, NextMoves
<1> QED BY <1>1, <1>2, MoneyInvariant, OneOpenRequestHolds, PTL DEF Spec

\* When requests do not overlap, an order shown as PAID has a paid row behind it,
\* whatever callbacks repeat or refunds give back (markCashierPaymentPaid,
\* handleWebhook, decideRefund).
THEOREM PaidMirrorBacked == ASSUME OneAtATime PROVE Spec => []PaidMirrorIsBacked
<1>1. SequentialInv => PaidMirrorIsBacked
  BY DEF SequentialInv, HeldInv
<1> QED BY <1>1, SequentialKept, PTL

\* When requests do not overlap, an order's stock leaves once (updateOrderStatus).
THEOREM StockLeavesOnce == ASSUME OneAtATime PROVE Spec => []DeductedOnce
<1>1. SequentialInv => DeductedOnce
  BY DEF SequentialInv, StockInv, DeductedOnce
<1> QED BY <1>1, SequentialKept, PTL

\* When requests do not overlap, refunds of items and a cancellation together put
\* back no more than the order took (decideRefund, decideCancellation).
THEOREM StockReturnsWithin == ASSUME OneAtATime PROVE Spec => []RestoredWithinDeducted
<1>1. SequentialInv => RestoredWithinDeducted
  BY DEF SequentialInv, StockInv, RestoredWithinDeducted
<1> QED BY <1>1, SequentialKept, PTL

\* When requests do not overlap, a collection sends the order to the kitchen only
\* while it waits there to be sent, and never revives one that moved on
\* (markCashierPaymentPaid, updateOrderStatus).
THEOREM KitchenEntered == ASSUME OneAtATime PROVE Spec => KitchenEntry
<1> DEFINE Kept == status' = "PROCESSING" /\ status # "PROCESSING"
                     => status \in {"PENDING", "CONFIRMED"}
<1>1. SequentialInv /\ MovesListed /\ MoneyInv /\ [Next]_vars => [Kept]_vars
  <2> SUFFICES ASSUME SequentialInv, MovesListed, MoneyInv, [Next]_vars PROVE Kept
    OBVIOUS
  <2>1. CASE UNCHANGED status
    BY <2>1
  <2>2. ASSUME NEW s \in Slots, Collect(s) PROVE Kept
    BY <2>2 DEF Collect, SequentialInv, StillTrue
  <2>3. ASSUME NEW s \in Slots, Move(s) PROVE Kept
    <3>1. status \in OrderStatus /\ status' \in ValidStatusTransitions[status]
      BY <2>3 DEF Move, StillAt, MovesListed
    <3> QED BY <3>1 DEF OrderStatus, ValidStatusTransitions
  <2>4. ASSUME NEW s \in Slots, ApproveRefund(s) \/ ApplyCancel(s) PROVE Kept
    BY <2>4 DEF ApproveRefund, ApplyCancel
  <2> QED BY <2>1, <2>2, <2>3, <2>4, StatusWriters
<1>2. Spec => [][Kept]_vars
  BY <1>1, MoneyInvariant, SequentialKept, PTL DEF Spec
<1> QED BY <1>2 DEF KitchenEntry

\* When requests do not overlap, a cancellation that is approved gives back all the
\* stock the order took and still had out (decideCancellation).
THEOREM CancelReturns == ASSUME OneAtATime PROVE Spec => CancelReturnsStock
<1> DEFINE Kept == \A c \in Cancels : cancel[c] = "PENDING" /\ cancel'[c] = "APPROVED"
                     => stock'.back = stock'.out
<1>1. SequentialInv /\ MoneyInv /\ [Next]_vars => [Kept]_vars
  <2> SUFFICES ASSUME SequentialInv, MoneyInv, [Next]_vars, NEW c \in Cancels,
                      cancel[c] = "PENDING", cancel'[c] = "APPROVED"
               PROVE  stock'.back = stock'.out
    OBVIOUS
  <2>1. PICK s \in Slots : ApplyCancel(s)
    BY DeskWriters DEF InsertCancel, RejectCancel, MoneyInv, TypeOK
  <2>2. TypeOK' /\ StockInv /\ HeldInv /\ StillTrue(req[s])
    BY NextTyped DEF SequentialInv
  <2>3. SameMoney
    BY <2>1, CancelTakesNone
  <2> QED BY <2>1, <2>2, <2>3, ApplyCancelKeeps
<1>2. Spec => [][Kept]_vars
  BY <1>1, MoneyInvariant, SequentialKept, PTL DEF Spec
<1> QED BY <1>2 DEF CancelReturnsStock

\* When requests do not overlap, a paid row leaves PAID only when it is refunded: no
\* repeated or contradicting callback takes the money back (handleWebhook).
THEOREM PaidRowsStay == ASSUME OneAtATime PROVE Spec => PaidRowStays
<1> DEFINE Kept == \A p \in Payments : IsPaid(p) => pay'[p].st \in CollectedStatuses
<1>1. SequentialInv /\ MoneyInv /\ OneOpenRequest /\ [Next]_vars => [Kept]_vars
  <2> SUFFICES ASSUME SequentialInv, MoneyInv, OneOpenRequest, [Next]_vars PROVE Kept
    OBVIOUS
  <2>1. CASE SameMoney
    BY <2>1 DEF SameMoney, IsPaid, CollectedStatuses
  <2>2. ASSUME NEW s \in Slots, Collect(s) \/ CallbackApply(s) \/ ApproveRefund(s)
        PROVE  Kept
    <3>1. TypeOK' /\ StockInv /\ HeldInv /\ StillTrue(req[s])
      BY NextTyped DEF SequentialInv
    <3> QED BY <2>2, <3>1, CollectKeeps, CallbackKeeps, ApproveRefundKeeps
            DEF IsPaid, CollectedStatuses
  <2> QED BY <2>1, <2>2, MoneyWriters
<1>2. Spec => [][Kept]_vars
  BY <1>1, MoneyInvariant, OneOpenRequestHolds, SequentialKept, PTL DEF Spec
<1> QED BY <1>2 DEF PaidRowStays

\* When requests do not overlap, a paid order leaves PAID only with the decision of a
\* refund: no expiry, gateway failure or callback takes it out of PAID
\* (createPublicQrisPayment, handleWebhook, decideRefund).
THEOREM PaidOrdersStay == ASSUME OneAtATime PROVE Spec => PaidOrderStays
<1> DEFINE Kept == payStatus = "PAID" /\ payStatus' # "PAID"
                     => \E r \in Refunds : refund'[r].st # refund[r].st
<1>1. SequentialInv /\ MoneyInv /\ OneOpenRequest /\ [Next]_vars => [Kept]_vars
  <2> SUFFICES ASSUME SequentialInv, MoneyInv, OneOpenRequest, [Next]_vars,
                      payStatus = "PAID", payStatus' # "PAID"
               PROVE  \E r \in Refunds : refund'[r].st # refund[r].st
    OBVIOUS
  <2> USE DEF OrderUnchanged, MoneyUnchanged, UnlessPaid
  <2>1. TypeOK' /\ StockInv /\ HeldInv /\ \A s \in Slots : StillTrue(req[s])
    BY NextTyped DEF SequentialInv
  <2>2. ~UNCHANGED vars /\ ~CreateCashIntent
    BY DEF vars, CreateCashIntent
  <2>3. \A p \in Payments : ~Lapse(p)
    BY DEF Lapse
  <2>4. (\A r \in Refunds : ~RejectRefund(r)) /\ (\A c \in Cancels : ~RejectCancel(c))
    BY DEF RejectRefund, RejectCancel
  <2>5. ASSUME NEW s \in Slots, CashierAndGateway(s) \/ GiveUp(s) PROVE FALSE
    <3>1. ~MirrorExpired(s)
      BY <2>1 DEF MirrorExpired, StillTrue
    <3>2. ~CallbackApply(s)
      BY <2>1, CallbackKeeps
    <3> QED BY <2>5, <3>1, <3>2 DEF CashierAndGateway, CreateVaIntent, CreateQrisIntent,
         ReuseQrisIntent, NewQrisIntent, KasirQrisStart, PublicQrisStart, ExpireStale,
         RecheckActive, GatewayAccepts, GatewayRejects, MirrorGatewayFailure, SwitchStart,
         SwitchRecheck, SwitchInsert, CollectStart, Collect, CallbackStart, CallbackRead,
         GiveUp
  <2>6. ASSUME NEW s \in Slots, KitchenAndDesks(s) PROVE ApproveRefund(s)
    BY <2>6 DEF KitchenAndDesks, MoveStart, Move, RefundStart, InsertRefund, ReadForRefund,
       CancelStart, InsertCancel, DecideCancelStart, WeighCancel, ApplyCancel
  <2>7. PICK s \in Slots : ApproveRefund(s)
    BY <2>2, <2>3, <2>4, <2>5, <2>6 DEF Next
  <2> QED BY <2>1, <2>7, ApproveRefundKeeps
<1>2. Spec => [][Kept]_vars
  BY <1>1, MoneyInvariant, OneOpenRequestHolds, SequentialKept, PTL DEF Spec
<1> QED BY <1>2 DEF PaidOrderStays
=============================================================================
