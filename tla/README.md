# Verification of the restaurant backend

TLA+ specifications of the services under `src/src/services`, model-checked with
TLC, with theorems checked by TLAPS.

The system is a Next.js web application over MySQL (Prisma) for restaurants with
several branches.  Its handlers run concurrently and share only the database.
Interactive transactions run at MySQL's default REPEATABLE READ, except
`updateOrderStatus`, which asks for READ COMMITTED.  Rows are protected by
`SELECT ... FOR UPDATE`, by guarded writes (`updateMany` with the expected status
in its `where`) or, in some places, by nothing but an earlier read.  What is hard
here is almost always the same thing: a handler reads, other handlers commit, and
the handler then acts on what it read.

## Inventory

| part | state it keeps | operations | hard behaviour |
|---|---|---|---|
| payments (`payment.service.ts`, public QRIS route) | payment rows, `order.paymentStatus`, cash ledger | create an intent, switch to cashier, collect cash, gateway callback, QRIS from the cashier or the customer | late, repeated and reordered callbacks; expiry racing payment; two methods for one order |
| gateway (iPaymu) | transactions of its own | accept, refuse, report | answers outside any lock; crash before the answer is stored |
| order lifecycle (`order.service.ts`) | `order.status`, history, table, stock taken | create, advance, cancel | two screens moving one order; money guards; stock leaves once |
| approvals (`approval.service.ts`) | refund and cancellation rows, refund ledger, stock put back | request, decide | several admins deciding; amounts read before the lock; stale status |
| product stock (`stock.service.ts`, `branch.service.ts`) | branch balance, movement ledger | movement, adjustment | many writers of one balance; lock order over several products |
| purchasing, ingredients, recipes | drafts, ingredient balance, average cost | receive, consume, reverse, adjust | received once; partial reversals; averages |
| shifts (`shift.service.ts`) | drawers, overrides | open, close, request and decide an override, reopen | collections and refunds while the drawer is counted |
| promotions (`promo.service.ts`) | quota, claims, uses | claim, apply, record | quota counted in a snapshot |
| reservations (`reservation.service.ts`, `reservation.slots.ts`) | bookings, holds, linked order | create, confirm by payment, transition, cancel | overlapping bookings; a hold that runs out while its order is being paid |
| tables, layout | table status, floor plan | occupy, free, move | one table, several orders |
| WhatsApp (`session-manager.ts`, queue, provider) | session, socket, queue | connect, reconnect, restore, send | restarts, one owner, message sent twice or never |
| realtime bus, rate limiter | listeners; windows | publish; count | process-local |
| menu, costing, profitability, accounting, reports, audit, accounts, branding | catalogue, snapshots, ledgers read back | edits and queries | mostly arithmetic over committed rows |

How they meet: a gateway callback or a collection writes a payment row, mirrors
it on the order and confirms the order's reservation in one transaction; the
kitchen moves the order, which takes stock, frees the table and sends a message;
refunds and cancellations write the same order, the same payment rows and put
stock back; a shift sums the cashier's rows.

What makes each part correct:

- payments: money is collected once per order, one intent is open at a time, a
  superseded row stays superseded, the ledger agrees with the rows, the order's
  mirror says what the rows say;
- orders: the status follows its transitions, stock leaves once, a cancelled
  order holds no money;
- approvals: one open request, one decision, never more money or stock back than
  came in;
- stock: the balance is what the ledger adds up to and never negative; a document
  moves stock once, entirely or not at all;
- shifts: one open drawer per cashier, the expected amount is what was collected
  less what was given back;
- promotions: a use of the quota serves no more orders than there are checkouts under
  way together, a use is of its customer's order, a discount never makes more cost less;
- reservations: no two live bookings overlap on a table, a guest has one at a time, a paid one is confirmed,
  an unpaid one lets its table go;
- WhatsApp: one socket per restaurant; what was connected comes back.

## Modules

| module | models | kind |
|---|---|---|
| `PaymentRows`, `PaymentLifecycle` | a payment row; what one row may go through | shape; abstract specification |
| `Settlement` | one order: its payments, kitchen, refunds, cancellations, stock | implements `PaymentLifecycle` row by row |
| `StockAccount` | the stock of one thing and the book of its movements | abstract specification |
| `StockLedger` | the products of a branch, moved by orders, purchases, refunds and counts | implements `StockAccount` product by product |
| `IngredientStock` | ingredients, purchases and the average cost | implements `StockAccount` ingredient by ingredient |
| `CashDrawer` | shifts, collections, refunds and overrides at several desks | |
| `ReservationSlots`, `Reservation` | the grid of a day; reservations with their orders, payments and holds | pure operators; state machine over them |
| `PromoQuota` | claims and checkouts over one promo | |
| `WhatsAppSession` | the session of one restaurant, its sockets, timers and row | with fairness |
| `MC...` | instances for TLC | |
| `...Proofs`, `Sums` | theorems, one proof module for each state machine above; sums over finite sets | |

The modules meet at the handlers that several of them model, each with the state
it is about: a collection is in `Settlement` with the order and its kitchen, in
`CashDrawer` with the drawer, in `Reservation` with the hold it may have outlived;
an approved refund is in `Settlement` (money), `StockLedger` (products),
`CashDrawer` (drawer) and `IngredientStock` (ingredients).  They are not conjoined into
one specification: their product is far beyond TLC, and no property relates, for
example, a drawer to a table.

What each run's properties rest on:

| run | proved for every value of the constants | model-checked only |
|---|---|---|
| `settlement_sequential` | for one slot (`OneAtATime`): `PaidMirrorIsBacked` `RestoredWithinDeducted` `DeductedOnce` `KitchenEntry` `CancelReturnsStock` `PaidRowStays` `PaidOrderStays` | |
| `settlement_intents` | `MoneyInv` `OneLiveQris` `CashBookMatchesRows` `RowsKeepLifecycle` | |
| `settlement_desks` | `OneOpenRequest` `RefundBookMatchesRows` `KitchenInOrder` | |
| `stock_ledger` | `LedgerInv` `MovedOnceAndWhole` `NothingBackBeforeItLeft` `AccountsKept` | |
| `ingredient_stock` | `ReceivedAsOneDraft` `RestoredWithinUsed` `AverageIsWithinPrices` `IngredientAccounts` | |
| `cash_drawer` | `DrawerInv` `RefundLeavesItsDrawer` `ExpectedIsTheDrawerLessRefunded` `CloseMissesNoCash` `MoneyStaysInItsDrawer` `EveryShiftChangeHasACause` | |
| `reservation` | `ConfirmedWithItsPayment` `TableIsSoldOnce` `GuestBooksOnce` `CancelledLeavesNothingOpen` `MovesAreValid` `OfferedIsAccepted` | |
| `promo_quota` | `OverrunIsBounded` `UsesNameTheirOrders` `DiscountIsFair` | |
| `whatsapp_session` | `OneThingUnderWay` | `ComesToAResult` `RestoredOrReported` |
| `paid_twice`, `over_refund`, `double_booking` | | each ends in a counterexample |

Every safety property of the passing runs is a theorem.  `ComesToAResult` and
`RestoredOrReported` are liveness under fairness, which the prover cannot treat.
The hypothesis `OneAtATime`, two slots are one, of the theorems about
`settlement_sequential` is part of what that run asks: for more than one slot these
properties are false, by the stale reads listed in the section on Settlement.  It
orders requests; cash intents, clocks and rejections need no slot and still come
between any two steps of a request.

Beyond the prover are also the recursions themselves: what `MapThenSumSet` computes is
derived once, in `Sums`, from the well-foundedness of inclusion, because the induction
theorems of the library cannot be instantiated.

## What is left

- The full reversal of ingredients by a cancellation, in `IngredientStock`.
- The sending of messages over the queue, once per order, beside `WhatsAppSession`.

## Settlement

`Settlement.tla` models one dine-in order.  `PaymentRows.tla` holds the shape of a
payment row, `PaymentLifecycle.tla` what one row may go through, whoever writes
it: it is the abstract specification that `Settlement` implements, row by row
(`Row(p) == INSTANCE PaymentLifecycle WITH row <- pay[p]`).

| variable | code |
|---|---|
| `status`, `payStatus` | `order.status`, `order.paymentStatus` |
| `table` | status of the order's table |
| `pay[p]` | the p-th payment row: status, method, `expiresAt` against the clock, number of its `cashier_payment` ledger entries |
| `refund[r]`, `cancel[c]` | refund rows (status, amount, by items or not, entries in the refund ledger), cancellation requests |
| `stock` | units of the order taken out of the branch's stock, and put back |
| `req[s]` | what the request in slot `s` has read and is about to do |

A request occupies a slot from its first read to its last write.  A step is what
the database does atomically:

- a transaction is **one step** when its first statement locks the row its rivals
  write (`createPayment`: `FOR UPDATE` on the order; `updateOrderStatus`: the
  guarded write of the order, then READ COMMITTED reads; the guarded collection
  of a cashier row);
- reads before the transaction are **a step of their own**, and what they returned
  is kept in `req[s]` (`CollectStart`/`Collect`, `MoveStart`/`Move`,
  `RefundStart`/`InsertRefund`, `CallbackStart`/`CallbackRead`/`CallbackApply`,
  `DecideCancelStart`/`WeighCancel`/`ApplyCancel`);
- a transaction that reads a snapshot before it locks is **two steps**
  (`SwitchRecheck`/`SwitchInsert`, `CallbackRead`/`CallbackApply`,
  `WeighCancel`/`ApplyCancel`, `ReadForRefund`/`ApproveRefund`);
- the gateway call and what follows it are outside any lock (`GatewayAccepts`,
  `GatewayRejects`, `MirrorGatewayFailure`).

`GiveUp` ends a request at any point: a rule rejected it, its transaction was
rolled back, or the server went down.  The gateway may report any result in
`Callbacks` for any transaction it accepted, repeatedly and in any order.  `Lapse`
is the clock passing a row's `expiresAt`.

| handler | actions |
|---|---|
| `createPayment` | `CreateCashIntent`, `CreateVaIntent`, `CreateQrisIntent`, then `GatewayAccepts`, `GatewayRejects`, `MirrorGatewayFailure` |
| `createKasirQrisPayment` | `KasirQrisStart`, `ExpireStale`, `RecheckActive`, then `CreateQrisIntent` (an order without rows goes straight to it) |
| customer's QRIS route | `PublicQrisStart`, `ExpireStale`, `MirrorExpired`, then `CreateQrisIntent` |
| `switchToCashier` | `SwitchStart`, `SwitchRecheck`, `SwitchInsert` |
| `markCashierPaymentPaid` | `CollectStart`, `Collect` |
| `handleWebhook` | `CallbackStart`, `CallbackRead`, `CallbackApply` |
| `updateOrderStatus` | `MoveStart`, `Move` |
| `requestRefund`, `decideRefund` | `RefundStart`, `InsertRefund`; `RejectRefund`, `ReadForRefund`, `ApproveRefund` |
| `requestCancellation`, `decideCancellation` | `CancelStart`, `InsertCancel`; `RejectCancel`, `DecideCancelStart`, `WeighCancel`, `ApplyCancel` |

Data that the properties do not tell apart is abstracted: every payment row
amounts to the order's `grandTotal`, as in the code; the order has `Total` items
that cost one unit each, so a refund by items and a refund by amount have the same
scale.  The checks the handlers make are operators of their own, each beside the
slip it guards against; the slips are not used by the specification and serve to
show that a property would notice.

Left out: the order belongs to no reservation and its rows to no shift
(`Reservation` and `CashDrawer`), status history, audit entries, realtime events, messages, the cost
snapshot and the reversal of ingredient consumption.

### Runs

| run | instance | shows |
|---|---|---|
| `settlement_sequential` | 1 slot, 2 payment rows, 1 refund, 1 cancellation, total 2, all four callback results | what the handlers promise holds when requests do not overlap, with callbacks late, repeated and out of order |
| `settlement_intents` | 2 slots, 2 rows, no refund or cancellation, three callback results | what survives every interleaving of the payment handlers; the refinement of `PaymentLifecycle` |
| `settlement_desks` | 2 slots, 1 row, 2 refunds, 2 cancellations | what survives several admins and kitchen screens |
| `paid_twice`, `over_refund` | 1 and 2 slots | one promise of a comment each, and the steps that break it |

Bounds.  Two slots are enough for the races between two handlers, and the third
party of a race (the gateway, the clock) needs no slot to be late.  Two payment
rows give every pair of methods and the fallback from one to another; two refunds
are needed to exceed a limit; total 2 tells a partial refund from a full one.
Slots are interchangeable, so the runs with two use symmetry; no liveness is
checked under symmetry.  Deadlock is not checked: an order that ended, or whose
bounded numbers of rows are used up, stops.

No fairness is assumed: the properties of this module are safety properties, and
the code gives no promise that a request returns or a callback arrives.

### What the code does not keep

The first two are runs that end in a counterexample; see `findings` in
`PROJECT.json`.  The others are found in the same way, by stating the property
for two slots.

- an order can be paid twice (`payment.service.ts:1149`, `PaidOnce`).  The run's trace
  needs one request at a time: a virtual account's row has no method, which
  `method: { not: "KASIR" }` does not match, so choosing cash leaves it PENDING
  (`CreateCashIntent`); the cashier collects the cash row, and the callback then pays the
  other.  A QRIS row that expired before the cashier took over is paid by a late callback in
  the same way;
- approved refunds can exceed what was collected: the limit is read before the
  transaction and not again (`approval.service.ts:225`, `RefundsWithinCollected`);
- a collection can pull an order back to PROCESSING, after which its stock is
  taken again (`payment.service.ts:826`, `KitchenEntry`, `DeductedOnce`);
- two switches at once insert two cashier rows (`payment.service.ts:559`,
  `OneLiveCashRow`);
- the customer's QRIS route writes EXPIRED over a paid order (`route.ts:81`,
  `PaidOrderStays`).

The last three need two requests at once, and so `KitchenEntry`, `DeductedOnce` and
`PaidOrderStays` say nothing about them: they are checked in `settlement_sequential`,
where a read cannot be stale and what can go wrong is the order of handlers, late
callbacks and the clock.  The same stale reads make `CancelReturnsStock`, `RestoredWithinDeducted`,
`PaidMirrorIsBacked` and `PaidRowStays` hold for requests that do not overlap only,
which is why they are properties of `settlement_sequential`.  With its one refund, that
run tries `RestoredWithinDeducted` on a refund, in part or whole, and a cancellation; several refunds
are covered by the theorem.  `PaidRowStays` is about PAID rows: a REFUNDED one may still
take any result of a late callback.

### Proofs

`SettlementProofs.tla` proves, for any number of slots, rows, refunds and
cancellations and any total, from `BoundsAssumption` and `CallbacksAssumption`:

- `MoneyInvariant`: `Spec => []MoneyInv`.  `MoneyInv` is the inductive invariant:
  `TypeOK`; `RowShape` (a cashier row is never PENDING or EXPIRED and never dated,
  an online row never UNPAID, the ledger counts agree); `RequestShape` (a request
  in flight at the gateway or applying a callback holds an online row, one that is
  collecting holds a cashier row).  `CashBookMatchesRows` alone is not inductive:
  a callback on a cashier row would break it, and only `RequestShape` excludes it;
- `TypeCorrect`, `CashBookCorrect`: consequences;
- `RowsImplementLifecycle`, `CancelledRowsStay`: every step of `Settlement` is a step
  of `PaymentLifecycle` or a stutter for each row, using `MoneyInv` in the state
  before it;
- `OneOpenRequestHolds`, `RefundBookCorrect`, `OneLiveQrisHolds`: each inductive
  beside `TypeOK`, the last because a QRIS row is only created when no PENDING one
  exists and no other action makes a row PENDING.

- `KitchenMoves`: a request that is about to move the order holds a move of the table
  from the status it read (`MovesListed`), and its guarded write applies only
  to that status; collections and cancellations are the only other writers.

Each proof has one step per action.

The second half is about requests that do not overlap, under `OneAtATime`, and again for
any number of rows, refunds and cancellations and any total.  `SequentialInv`
(`SequentialKept`) has three parts:

- `StockInv`: nothing has left while the order is not READY, all of it has once it is,
  and what came back is within what left and, until a cancellation, within
  the refunds of items that were approved;
- `HeldInv`: every row refunded in full is covered by approved refunds, an order that
  goes on has no such row, holds money if a refund was ever asked for or anything came
  back, and PAID is backed by a row;
- `StillTrue`: what the one request under way has read is still so.  This is the point
  where one slot matters: a second request could change it between the read and the use.

Without it none of the seven properties holds.  That a refund restores no more than was
taken, for one, follows from the limit that `requestRefund` checked, which is only good if
it is still the limit when the refund is decided.  A step is `Calm` (it leaves money, stock and the
status alone, `CalmKeeps`, and makes what it reads true, `CalmReads`) or it is the last
step of one of the handlers that settle something, each with a lemma of its own:
`MoneyInKeeps` with `CollectKeeps` and `CallbackKeeps`, `MoveKeeps`,
`InsertRefundKeeps`, `ApproveRefundKeeps`, `ApplyCancelKeeps`.  The amounts are sums over rows
and over refunds: `Figures` and `OneMoreApproved` say, from `Sums`, how one row or one
refund changes them.  The four action properties follow from the invariant in the state
before the step.

## StockLedger

`StockLedger.tla` models the product stock of one branch and everything that goes
through `applyStockMovement`.  `StockAccount.tla` is what the stock of one product
promises, a balance whose every change is a movement in a book; `StockLedger`
implements it product by product (`Account(p) == INSTANCE StockAccount WITH balance
<- stock[p], book <- ledger[p], ...`).

| variable | code |
|---|---|
| `stock[p]` | `branchProduct.stock`, as committed |
| `listed` | the products that have a `branchProduct` row |
| `ledger[p]` | the `StockMovement` rows of a product, in order |
| `doc[d]` | status of an order, a purchase or a refund |
| `req[s]` | the request in slot `s`: what it read, the rows it holds and the balances it has written in its open transaction |

| code | actions |
|---|---|
| the read and the status check before the transaction (`updateOrderStatus`, `receivePurchase`, `cancelPurchase`, `decideRefund`) | `Read` |
| the guarded write of the document, which locks it | `Begin` |
| `applyStockMovement` on a row that exists | `LockRow` |
| on a row that does not: nothing is locked, then insert or find it inserted | `FindNoRow`, `ReserveRow` |
| the end of the transaction | `Commit` |
| refusal, rollback for want of stock, end of a deadlock, crash | `GiveUp` |
| `updateBranchProduct`: read the balance, then move and overwrite | `CountStart`, `Count` |

Unlike `Settlement`, a transaction is several steps here, because it locks its
products one after another.  The order of the products is the order of the lines,
which is arbitrary, so any product still to do may be next; two transactions may
wait for each other, and one then gives up.  What a transaction writes is seen
when it commits, together with the status of its document.  An approved refund
also writes its order (`RowsOf`), so it waits for a transaction on that order and
reads its status after it.  A refund may cancel its order (`Settled`): whether it
gave everything back is money, which is `Settlement`'s, so both are possible.
An order that was READY before stock left at READY (`LegacyOrders`) moves its stock
on COMPLETED, when it has no movement yet.  The other orders begin in PROCESSING:
nothing moves before.

A movement names its document; in the code a refund's carries the order's id and
the type REFUND_RESTORE.  A product that a purchase lists in two lines is moved
twice within one transaction in the code and once, by the sum, here; orders and
refunds are summed in the code too.

Left out: what a cancellation puts back (in `Settlement`), edits of a draft
purchase and ingredient balances (in `IngredientStock`), the availability check when
an order is created (it reserves nothing), products that are served from several branches.

### Runs

| run | instance | shows |
|---|---|---|
| `stock_ledger` | 2 slots; a listed product that is counted and a new one that is not; 2 orders (one of them legacy), 2 purchases, 1 refund | the lock discipline; each document moves once and whole; the new product is a `StockAccount` although two receipts may both find no row |

Bounds.  Two purchases of the new product are the two transactions that race for a
missing row; two products give two transactions that lock in opposite orders; the
opening balance of 2 runs out when both orders sell, so movements are refused.
`MaxMoves` bounds the counts (none once a product has that many movements), as
everything else ends with its document.  Requests are interchangeable, so symmetry
is used.  Deadlock is not checked: the documents end.  No fairness is assumed.

What the code does not keep: `branch.service.ts:484` writes the number that was typed in after the
movement whose quantity came from an older read.  The ledger's last balance then
differs from the stock, against the comment above the code.  For products that
nobody counts this cannot happen, which is what `LedgerReflectsUncounted` proves.

### Proofs

`StockLedgerProofs.tla` proves, for any products, documents, quantities and number
of requests, from `DocumentsAssumption` (the kinds of documents are disjoint, a
refund gives back no more of a product than its order has, quantities are natural
numbers) and `ProductsAssumption`:

- `LedgerKept`: `Spec => []LedgerInv`, inductive as it stands.  Its three parts need
  each other: a transaction may compute with the balance it locked
  (`KnownBalances`) because nobody else holds the row (`Exclusive`);
- `EveryChangeIsAMovement`: the refinement of `StockAccount`.  A commit writes
  `new[p]`, and `KnownBalances` makes its difference from the stock the quantity that
  is written in the ledger;
- `LedgerReflectsUncounted`: from the refinement;
- `EachMovedOnceAndWhole` and `NothingComesBackFirst`, both read from `HistoryInv`.
  `MovedOnceAndWhole` is not inductive: it does not say that a transaction about to
  commit carries all of its document's products, nor that no other transaction works
  on the same document.  `HistoryInv` adds that what a transaction has taken and has
  still to take is exactly what was due when it wrote its document, that this stays
  true while it runs (open transactions write disjoint rows), and that an order which
  became READY has moved everything.

## IngredientStock

`IngredientStock.tla` models the ingredients of one branch: purchases, from the
draft to the receipt, bring them in and set their average cost; orders use them;
refunds put a share back; an administrator counts them.

| variable | code |
|---|---|
| `stock[i]`, `cost[i]` | `branchIngredient.stock` and `.averageCost` (none before the first receipt) |
| `book[i]` | the `IngredientStockMovement` rows |
| `purchase[d]` | status, lines and total of a purchase |
| `order[o]` | whether its ingredients were used; how many of its items were refunded |
| `req[s]` | what a request read before its transaction |

| code | actions |
|---|---|
| `updateDraftPurchase` | `EditRead`, `EditWrite` |
| `receivePurchase` | `ReceiveRead`, `ReceiveWrite` |
| `cancelPurchase` | `CancelPurchase` |
| `consumeOrderIngredients` | `Consume` |
| `decideRefund` with `restoreStockForRefund` and `reverseHistoricalIngredientConsumption` | `RefundRead`, `RefundWrite` |
| `adjustIngredientStock` | `CountRead`, `CountWrite` |

A transaction locks each ingredient it moves until it commits, so its reads under
the lock and its writes are one step.  Quantities are whole numbers of the smallest
part a column holds (`Scale` of them make a unit) and money whole numbers of its
smallest part: `Nearest` is the rounding of the column and `Rounded` that of `round2`.

`consumeOrderIngredients` has no caller left in the services: completing an order no
longer calls it.  The model keeps it for a caller of its own, because the
movements that earlier orders left are what refunds reverse.

The run `ingredient_stock` has two requests; rice that was in stock before costs were
kept and milk that was not; two purchases, each of whose drafts may say either of
two versions; one order of two items, refunded one at a time or together; one count.
`Scale` 2 makes half of an item an amount that has to be rounded.  Requests are
interchangeable.  The documents end, so deadlock is not checked.

What the code does not keep (no runs; the definitions are in the module):

- the parts restored can exceed what was used by a rounding
  (`RestoredNeverExceedsUsed`, against "cumulative restorations never exceed the
  historical consumption", `approval.service.ts:1111`); `RestoredWithinUsed` says by how
  much;
- an edit between the read of a receipt and its transaction leaves a purchase whose
  lines are not what was received (`ReceivedIsItsLines`, `purchase.service.ts:540`);
  `ReceivedAsOneDraft` says that it was received as one of its versions;
- a count applies the difference to an older read, so the stock is not the number
  that was typed in if something moved in between; stock that never had a cost is
  valued at nothing by the next receipt.

Proofs (`IngredientStockProofs`, from `IngredientAssumption`).  Each movement is one more
entry of the reference it was made for (`OnePosted`), so each sum over the book
grows by one term or stays.  `IngredientInv` adds to the types: the number
of refunds made and in hand (`RefundsCounted`); that consumption only takes out
(`UsedTakesOut`); that what came back exceeds the share of the refunded items by at
most half a part for each refund (`BackWithinShare`); that an ingredient without a
cost has never been used (`UnpricedIsUnused`).  `AverageIsWithinPrices` follows from a
lemma on the rounded weighted mean of two numbers.

## CashDrawer

`CashDrawer.tla` models the shifts of one branch.  A desk is a screen somebody works
at and has one request under way; `User` says who.  Nothing in the code keeps a
cashier from working at two, and then some of what follows is not kept: the
properties that need it speak of the cashiers at one desk (`OnTheirOwn`).

| variable | code |
|---|---|
| `shift` | `cashierShift` rows: status, owner, counted and expected cash and their difference |
| `payment[p]`, `refund`, `override` | the rows, as far as a shift sees them |
| `drawer[s]` | the money in the drawer: no column has it |
| `req[d]` | what the request of desk `d` has read |

| handler | actions |
|---|---|
| `openShift` | `OpenCheck`, `NextShiftNumber` (a number already taken is tried again), `CreateShift` |
| `markCashierPaymentPaid` | `CollectRead`, `CollectWrite` |
| `createKasirQrisPayment`, the link to the shift; `handleWebhook` | `LinkRead`, `LinkWrite`; `OnlinePaid` |
| `requestRefund`, `decideRefund` | `RefundRead`, `RefundCreate`; `ApproveRefund`, `RejectRefund` |
| `closeShift` | `CloseFind`, `ReadSales` and `ReadRefunds` (a `Promise.all`, in either order), `CloseWrite` |
| `requestOverride`, `decideOverride` | `OverrideRead`, `OverrideCreate`; `DecideFind`, `DecideLock`, the totals read outside the transaction, `DecideWrite` |
| `reopenShift` | `ReopenRead`, `ReopenWrite` |

The run `cash_drawer` has two cashiers and an administrator at a desk each, two shifts,
one cash and one QRIS payment of different amounts, one refund, one override, and
two requests under way at a time.  Two shifts are what it takes for money or a refund
to go to the wrong one; the attempts at a number are two instead of the code's five.
The cashiers are interchangeable together with their desks.

What the code does not keep:

- a cash payment that is refunded in full is subtracted twice from the expected cash:
  the approval makes its row REFUNDED, so that it is no longer among the sales, and the
  refund is subtracted too (`ExpectedIsTheDrawer`, against "Expected cash at close =
openingCash + cash collected (PAID KASIR payments in this shift) − cash refunded in
this shift", `shift.service.ts:35`).  What is
  expected instead is the property `ExpectedIsTheDrawerLessRefunded`;
- reopening a shift does not look for another open one (`OneOpenShift`, against
  `shift.service.ts:134`);
- an approved override rewrites the count and the difference but not the expected
  cash (against "reconciles the closed shift's closingCash/expectedCash/difference",
  `shift.service.ts:602`), and does not look whether the shift was reopened: its figures land
  on the open shift;
- two administrators may decide one override, which is found PENDING and then updated by
  id: the row can say REJECTED after the figures were corrected;
- a cashier at two desks can collect behind the count of the other (`CloseMissesNoCash`).

`EveryShiftChangeHasACause` is what is left of "immutable closed shift"
(`shift.service.ts:646`).  It is about every shift, open or closed, whoever works where: a change
is a reopening, a count that closes it, or the correction by an override of that shift which is
approved in this very step.  With one administrator the override was undecided until then, so
each is spent once, and only a closed shift is reopened.

Proofs.  `CashDrawerProofs` shows that a desk goes on with what is still true because
no other desk takes it away: every action is by a set of desks that `Leaves` the
rest what they looked up.  `MissesNone` is what `closeShift` needs: once the sales of a
shift have been read, its only cashier is at this desk and cannot collect.
`ShiftChangesAccounted` is shown step by step beside it (`ShiftsKept`): only
three actions change a shift, and each is one of the three causes.
Its second half adds the sums: what is in a drawer is the opening cash, what
was collected into it and, negatively, its approved refunds (`Figures`); each step adds
one member to one of these sets.

## Reservation

`ReservationSlots.tla` holds the pure part of `reservation.slots.ts` (overlap, opening
hours, the window of a booking, the grid that the page offers).  `Reservation.tla` is the
state machine: the reservations of a branch, and of each the order it carries, with
at most one cash row and one online row.

| variable | code |
|---|---|
| `now` | the server's clock |
| `reservation[i]` | status, what was asked for, `createdAt` |
| `order[i]` | order status and `paymentStatus`, the cash row and the online row |
| `req[s]` | what the request in slot `s` has read |

| code | actions |
|---|---|
| `createReservation` (locks the branch) | `Reserve` |
| `updateStatus`, `cancelReservation`, the guest's cancellation | `Transition`, `Apply` |
| `assertReservationPaymentWindow` on a hold that is over | `PayOnline` or `StartCollect`, then `Expire`, `Apply` |
| the reservation's payment page, the general payment route | `PayOnline`, `PayOrder` |
| `createPayment` | `CreateIntent`, `ChooseCash`, `GatewayFails` |
| `markCashierPaymentPaid` | `StartCollect`, `Collect` |
| `handleWebhook` | `Webhook` |

The run `reservation` counts in quarters of an hour: a lunch and a coffee that overlap on
one table without starting together, the lunch's guest without a table and under an account, public and
by staff, two reservations, two requests, a hold of one quarter and two ticks of the
clock, so that a hold ends with a request on either side of it.  `double_booking` checks
`NeverDoubleBooked` on the same module.

What the code does not keep: a table is sold twice when a collection that began within
the hold commits after it, or a callback arrives then (the finding).  `TableIsSoldOnce`
shows that this is the only way.  A guest is looked up by the account of whoever is logged in,
and only without one by the phone number (`IsGuest`): one who booked by phone and books
again logged in is not recognised, and holds two reservations for one time, against
"Duplicate booking protection" (`reservation.service.ts:1012`).  `GuestBooksOnce` counts
the same account or the same phone as the same guest and names these two ways as the only
ones.  After a cancellation the cash row stays UNPAID and
an intent that had FAILED may still be reported PAID, so the order can still be paid,
against the comment at `reservation.service.ts:1459`; and a collection that read the
order as PENDING makes it PROCESSING although it was cancelled meanwhile.

Proofs (`ReservationProofs`).  All handlers but `Reserve` change one row and its order
(`Effect`).  For reservations `i < j` that clash, or that the duplicate check tells are one guest's (`Found`), `ClearInv` says that `i` had let its table
go when `j` was made (`LetGo`): it is cancelled or a no-show, or its hold was over while it was
unpaid.  It is an invariant because a status that does not hold is final and a hold that is
over stays over.  `CommonMinute` turns the interval test of the code into
"a minute in common".  `OfferedExactlyAccepted` is about the pure part: for every clock,
duration and day of the horizon, and over all whole minutes, the
starts of `BuildSlots` are those of `ValidWindow`; both step through the same grid, and
the lead time and the closing hour cut it at the same ends.

## PromoQuota

`PromoQuota.tla` models one promo.  A claim locks the promo row and counts afterwards.  A
checkout reads its customer first, which fixes the snapshot of its transaction
(`Begin`), and locks the promo later (`Place`): what it counts under the lock are the
usage rows of the snapshot.

| code | actions |
|---|---|
| `claimPromo`, `setPromoActive` | `Claim`, `SetActive` |
| `persistCustomerOrder` up to the lock | `Begin` |
| `applyPromoToOrder`, the total, the order, `recordPromoUse`, commit | `Place` |
| any refusal | `Refuse` |

The run `promo_quota` has three checkouts of two customers with a quota of two and a
limit of one each, so that each bound is reached: six orders, three of them of one
customer, and four used rows.  `MaxOrders` is seven, one more than the bound.

What the code does not keep: "concurrent claims/applies can never oversell"
(`promo.service.ts:13`).  Two orders of one customer may turn the same claim into
their use, and the first is then no longer counted: the used rows say less than the orders
that had the discount.  `OverrunIsBounded` therefore bounds both, the orders by the
quota times the checkouts under way, the rows by the quota and the other checkouts, and the
same for each customer's limit.  A `perCustomerLimit` of 0 means no
limit for a use but refuses every claim.

Proofs (`PromoQuotaProofs`).  `RoomInv`: the uses, and the checkouts whose snapshot still
shows room, are together at most the limit less one plus all the slots: while there is
room the slots alone bound the snapshots, and once there is none nobody takes a new one.
`SoldInv` is about the orders, those that lost their row included.  A checkout is
`Behind` when its snapshot misses a use that is within the limit.  An order either adds a
use, after which all slots may be behind, or overwrites one, and then its own checkout was
behind and no longer is; so the orders and the checkouts that are behind are together at most
the uses within the limit times the slots.  `EveryPromoIsFair` is about the arithmetic alone: a
discount is never more than the items or its cap, and one more unit of items never
makes the total smaller, through the rounding, the tax and the service charge;
`DiscountsAreFair` is what it says of the orders there are.

## WhatsAppSession

`WhatsAppSession.tla` models the session of one restaurant in the worker that owns it.
JavaScript runs a method without interruption between two awaits: such a piece is a step.

| variable | code |
|---|---|
| `prov[i]` | a `BaileysProvider`: status, socket, `connectInProgress`, attempts, timers, awaited calls |
| `sock[k]` | a socket of the library |
| `current`, `registered`, `loading` | `sessions`, `callbackRegistered`, calls that wait for the class |
| `creds`, `db`, `writes` | credential files; whether the row's status would be restored; writes nobody waits for |

| code | actions |
|---|---|
| `connect`, `disconnect`, `refreshQr`, `forceReconnect` of the manager | `Connect` and `Loaded`, `Disconnect`, `RefreshQr`, `ForceReconnect` |
| `connect` of the provider | `SocketMade`, `ConnectFails` |
| `connection.update` | `QrShown`, `Opened`, `ClosedForGood`, `Closed` |
| the reconnect timer | `TimerFires` |
| `updateDbStatus` | `Written`, in any order |
| the process | `Crash`, `RestoreSessions` |

Fairness: timers fire, awaited calls return, writes land, and the library ends a
connection that does not open.  Nothing is assumed of administrators, crashes, or a
socket that is open.

The run `whatsapp_session` has two providers and two sockets, which is what it takes
for an old one to live on beside the current one, two attempts instead of the code's
five, two requests and one crash.  No symmetry, because it checks liveness.

What the code does not keep: one connection per restaurant (`OneConnection`,
`session-manager.ts:78`).  After an administrator disconnects, the close that the library
reports has no code and starts the reconnect timer of an object that has left the map.
`restoreSessions` connects without the look at the status that `connect` takes.
`OneThingUnderWay` is about the objects to which neither happened (`disturbed`).
`RestoreSessions` is one step from the read of the rows to the call of `connect`; the code
awaits the rows and the class in between, and a request that connects there is
not modelled.  Of its `connect`, what follows the first await is a step of its own as for any other.
`RestoredOrReported` is met as soon as the attempt is under way: whether the row's later
write succeeds is outside it.
Only the worker calls `restoreSessions`, so a session of the web process comes back
only when somebody asks; a row that says CONNECTING is not restored.

Proofs (`WhatsAppSessionProofs`, from `ObjectsAssumption`).  `SessionInv` says what an
undisturbed provider is at (`OneAtWork`): it rests, waits for one call, waits for one timer, or
holds one live socket, and in the first three cases nothing of the library is its own.  Its
status has to be part of it, since the manager decides by the status alone, and so has, for
every provider, that the socket it refers to is its own (`RefersToItsOwn`): otherwise ending
one provider's socket could take another's away.  Every step is of one provider and touches
its own sockets or free ones (`OneProviderChanges`).

## Sums

The library's `MapThenSumSet` is a recursion over a set.  `Sums.tla` proves what the
other modules need of it for finite sets of whole numbers: it is an integer, grows by
the term of a new member, splits over disjoint parts, and follows the signs of its terms.  The
inductions look for a smallest counterexample among the subsets of one finite set,
ordered by strict inclusion.

## Not modelled

- Tables and floor layout: a table an order occupies is in `Settlement`, one a
  reservation holds is in `Reservation`; the plan is edited by one administrator.
  That finishing one order frees a table which another is using is a hazard without a
  property: nothing reads a table's status to decide.
- Realtime bus, audit log: written and forgotten; no service reads them back.
- Rate limiter: a counter of one process without an await in it.
- Menu, customizations, recommendations, branding, uploads: catalogue data and files,
  one guarded write at a time.
- Costing, profitability, accounting, reports: arithmetic over committed rows; what
  they read is kept by the modules above.
- Staff and customer accounts, sessions: the models begin with an authorised request.
- Web pages and components: presentation, and most of the lines of the repository.
- The outbound message queue and its provider limits: only the session is modelled.
