----------------------------- MODULE CashDrawer -----------------------------
(***************************************************************************)
(* The cash drawers of one branch: a cashier opens a shift, collects cash   *)
(* into it, counts the drawer and closes it; refunds come out of it; an     *)
(* administrator corrects or reopens a closed one.                         *)
(*                                                                         *)
(* Every request reads first and writes later, and locks nothing in        *)
(* between.  A desk has one request under way; how many desks a user works  *)
(* at is a parameter, because only the user interface says it is one.      *)
(***************************************************************************)
EXTENDS Integers, Sequences, FiniteSets, FiniteSetsExt

CONSTANTS
    Desks,
    User,         \* who works at a desk
    Cashiers, Admin,
    Cash, Online, \* payments by method: KASIR rows and QRIS rows, one per order
    Due,          \* the amount of a payment
    Opening,      \* openingCash of every shift
    Counts,       \* what a cashier may count, or propose
    MaxTries,     \* attempts at a shift number
    MaxShifts, MaxRefunds, MaxOverrides,
    MaxInFlight,  \* requests under way at the same time
    None

Payments == Cash \cup Online

ASSUME UsersAssumption ==
    /\ User \in [Desks -> Cashiers \cup {Admin}]
    /\ Admin \notin Cashiers

ASSUME MoneyAssumption ==
    /\ Cash \cap Online = {}
    /\ IsFiniteSet(Cash) /\ IsFiniteSet(Online)
    /\ Due \in [Payments -> Nat \ {0}]
    /\ Opening \in Nat /\ Counts \subseteq Nat

ASSUME BoundsAssumption ==
    /\ MaxTries \in Nat \ {0}
    /\ MaxShifts \in Nat /\ MaxRefunds \in Nat /\ MaxOverrides \in Nat
    /\ MaxInFlight \in Nat \ {0}
    /\ None \notin Int

VARIABLES
    shift,      \* cashierShift rows; a shift's number is its place
    payment,
    refund,
    override,   \* shiftOverride rows
    drawer,     \* the money that is really in each drawer; no column has it
    req         \* what the request of each desk is about to do

vars == <<shift, payment, refund, override, drawer, req>>

-----------------------------------------------------------------------------
(* Rows *)

Shifts == DOMAIN shift

MaybeShift == Nat \cup {None}

ShiftRow ==
    [status : {"OPEN", "CLOSED"}, user : Cashiers,
     closing : Int \cup {None}, expected : Int \cup {None},
     difference : Int \cup {None}]

NewShift(c) ==
    [status |-> "OPEN", user |-> c, closing |-> None, expected |-> None,
     difference |-> None]

PaymentRow == [status : {"UNPAID", "PENDING", "PAID", "REFUNDED"}, shift : MaybeShift]

RefundRow ==
    [payment : Payments, shift : MaybeShift, amount : Nat,
     status : {"PENDING", "APPROVED", "REJECTED"}]

OverrideRow ==
    [shift : Nat, count : Counts \cup {None},
     status : {"PENDING", "APPROVED", "REJECTED"}]

OpenShifts(c) == {s \in Shifts : shift[s].status = "OPEN" /\ shift[s].user = c}

Collected(p) == payment[p].status \in {"PAID", "REFUNDED"}

CollectedIn(s) == {p \in Cash : Collected(p) /\ payment[p].shift = s}

\* Without the method.
SalesAndQris(s) ==
    {p \in Payments : payment[p].shift = s /\ payment[p].status = "PAID"}

\* The cash sales of a shift are its PAID rows: a refunded one is no longer among them.
SalesOf(s) == {p \in CollectedIn(s) : payment[p].status = "PAID"}

RefundsOf(s) == {i \in DOMAIN refund : refund[i].shift = s /\ refund[i].status = "APPROVED"}

Refunded(p) ==
    MapThenSumSet(LAMBDA i : refund[i].amount,
                  {i \in DOMAIN refund : refund[i].payment = p /\ refund[i].status = "APPROVED"})

\* Expected cash, from the sales and the refunds that were read.
Expected(sales, refunds) ==
    Opening + MapThenSumSet(LAMBDA p : Due[p], sales)
            - MapThenSumSet(LAMBDA i : refund[i].amount, refunds)

PendingRefund(p) == \E i \in DOMAIN refund :
    refund[i].payment = p /\ refund[i].status = "PENDING"

PendingOverrides(s) ==
    {o \in DOMAIN override : override[o].shift = s /\ override[o].status = "PENDING"}

-----------------------------------------------------------------------------
(* Requests *)

Idle == [step |-> "idle"]

Totals == {"sales", "refunds"}

\* computeShiftTotals reads the sales and the refunds side by side; toRead are
\* those that have not come back.
Totalling == [step : {"close"}, shift : Nat, count : Counts, toRead : SUBSET Totals,
              sales : SUBSET Payments, refunds : SUBSET Nat]
             \cup
             [step : {"reconcile"}, shift : Nat, override : Nat, approve : BOOLEAN,
              toRead : SUBSET Totals, sales : SUBSET Payments, refunds : SUBSET Nat]

Request ==
    {Idle} \cup Totalling
    \cup [step : {"number"}, tries : Nat]
    \cup [step : {"create"}, tries : Nat, number : Nat]
    \cup [step : {"collect", "link"}, payment : Payments, shift : MaybeShift]
    \cup [step : {"refund"}, payment : Payments, shift : MaybeShift, amount : Nat]
    \cup [step : {"override"}, shift : Nat, count : Counts \cup {None}]
    \cup [step : {"decide"}, override : Nat, approve : BOOLEAN]
    \cup [step : {"reopen"}, shift : Nat]

At(d, step) == req[d].step = step

Under(steps) == Cardinality({d \in Desks : req[d].step \in steps})

InFlight == Cardinality({d \in Desks : ~At(d, "idle")})

Starts(d, r) == /\ At(d, "idle") /\ InFlight < MaxInFlight
                /\ req' = [req EXCEPT ![d] = r]
                /\ UNCHANGED <<shift, payment, refund, override, drawer>>

Goes(d, r) == req' = [req EXCEPT ![d] = r]

-----------------------------------------------------------------------------
(* openShift *)

MayOpen(c) == OpenShifts(c) = {}

OpenCheck(d) ==
    /\ User[d] \in Cashiers /\ MayOpen(User[d])
    /\ Len(shift) + Under({"number", "create"}) < MaxShifts
    /\ Starts(d, [step |-> "number", tries |-> 0])

NextShiftNumber(d) ==
    /\ At(d, "number")
    /\ Goes(d, [step |-> "create", tries |-> req[d].tries, number |-> Len(shift) + 1])
    /\ UNCHANGED <<shift, payment, refund, override, drawer>>

\* The number is unique: whoever comes second reads a new one.
CreateShift(d) ==
    /\ At(d, "create")
    /\ \/ /\ req[d].number = Len(shift) + 1
          /\ shift' = Append(shift, NewShift(User[d]))
          /\ drawer' = Append(drawer, Opening)
          /\ Goes(d, Idle)
       \/ /\ req[d].number <= Len(shift)
          /\ Goes(d, IF req[d].tries + 1 = MaxTries THEN Idle
                     ELSE [step |-> "number", tries |-> req[d].tries + 1])
          /\ UNCHANGED <<shift, drawer>>
    /\ UNCHANGED <<payment, refund, override>>

-----------------------------------------------------------------------------
(* markCashierPaymentPaid, and the QRIS of a cashier *)

\* Without the owner in the query.
AnyOpenShift(u) ==
    IF u \in Cashiers THEN {s \in Shifts : shift[s].status = "OPEN"} ELSE {None}

\* Where a user may take money: a cashier into the open shift, an administrator
\* into no drawer.
DrawersOf(u) == IF u \in Cashiers THEN OpenShifts(u) ELSE {None}

CollectRead(d, p) ==
    /\ payment[p].status = "UNPAID"
    /\ \E s \in DrawersOf(User[d]) :
         Starts(d, [step |-> "collect", payment |-> p, shift |-> s])

TakesAgain(p) == TRUE
Takes(p) == payment[p].status = "UNPAID"

CollectWrite(d) ==
    LET p == req[d].payment
        s == req[d].shift
    IN /\ At(d, "collect")
       /\ IF Takes(p)
          THEN /\ payment' = [payment EXCEPT ![p] = [status |-> "PAID", shift |-> s]]
               /\ drawer' = IF s = None THEN drawer
                            ELSE [drawer EXCEPT ![s] = @ + Due[p]]
          ELSE UNCHANGED <<payment, drawer>>
       /\ Goes(d, Idle)
       /\ UNCHANGED <<shift, refund, override>>

LinkRead(d, p) ==
    /\ payment[p].status = "PENDING"
    /\ \E s \in OpenShifts(User[d]) :
         Starts(d, [step |-> "link", payment |-> p, shift |-> s])

Unlinked(p) == payment[p].shift = None

LinkWrite(d) ==
    LET p == req[d].payment
    IN /\ At(d, "link")
       /\ payment' = IF Unlinked(p) THEN [payment EXCEPT ![p].shift = req[d].shift]
                     ELSE payment
       /\ Goes(d, Idle)
       /\ UNCHANGED <<shift, refund, override, drawer>>

\* The gateway reports the money of a QRIS.
OnlinePaid(p) ==
    /\ payment[p].status = "PENDING"
    /\ payment' = [payment EXCEPT ![p].status = "PAID"]
    /\ UNCHANGED <<shift, refund, override, drawer, req>>

-----------------------------------------------------------------------------
(* Refunds *)

\* The drawer of whoever asks.
OwnDrawer(u, p) ==
    IF p \notin Cash \/ OpenShifts(u) = {} THEN {None} ELSE OpenShifts(u)

\* The drawer a refund is charged to: the one that collected, else the open one
\* of whoever asks.
RefundDrawers(u, p) ==
    IF p \notin Cash THEN {None}
    ELSE IF payment[p].shift # None THEN {payment[p].shift}
    ELSE IF OpenShifts(u) # {} THEN OpenShifts(u)
    ELSE {None}

RefundRead(d, p) ==
    /\ Collected(p)
    /\ Len(refund) + Under({"refund"}) < MaxRefunds
    /\ \E amount \in 1 .. (Due[p] - Refunded(p)), s \in RefundDrawers(User[d], p) :
         Starts(d, [step |-> "refund", payment |-> p, shift |-> s, amount |-> amount])

RefundCreate(d) ==
    /\ At(d, "refund")
    /\ refund' = IF PendingRefund(req[d].payment) THEN refund
                 ELSE Append(refund, [payment |-> req[d].payment, shift |-> req[d].shift,
                                      amount |-> req[d].amount, status |-> "PENDING"])
    /\ Goes(d, Idle)
    /\ UNCHANGED <<shift, payment, override, drawer>>

\* A payment that is refunded in full is marked so.
ApproveRefund(i) ==
    LET p == refund[i].payment
        s == refund[i].shift
    IN /\ refund[i].status = "PENDING"
       /\ refund' = [refund EXCEPT ![i].status = "APPROVED"]
       /\ payment' = IF Refunded(p) + refund[i].amount >= Due[p]
                     THEN [payment EXCEPT ![p].status = "REFUNDED"] ELSE payment
       /\ drawer' = IF s = None THEN drawer
                    ELSE [drawer EXCEPT ![s] = @ - refund[i].amount]
       /\ UNCHANGED <<shift, override, req>>

RejectRefund(i) ==
    /\ refund[i].status = "PENDING"
    /\ refund' = [refund EXCEPT ![i].status = "REJECTED"]
    /\ UNCHANGED <<shift, payment, override, drawer, req>>

-----------------------------------------------------------------------------
(* closeShift *)

CloseFind(d, count) ==
    \E s \in OpenShifts(User[d]) :
        Starts(d, [step |-> "close", shift |-> s, count |-> count, toRead |-> Totals,
                   sales |-> {}, refunds |-> {}])

ReadSales(d) ==
    /\ req[d].step \in {"close", "reconcile"} /\ "sales" \in req[d].toRead
    /\ Goes(d, [req[d] EXCEPT !.sales = SalesOf(req[d].shift),
                              !.toRead = @ \ {"sales"}])
    /\ UNCHANGED <<shift, payment, refund, override, drawer>>

ReadRefunds(d) ==
    /\ req[d].step \in {"close", "reconcile"} /\ "refunds" \in req[d].toRead
    /\ Goes(d, [req[d] EXCEPT !.refunds = RefundsOf(req[d].shift),
                              !.toRead = @ \ {"refunds"}])
    /\ UNCHANGED <<shift, payment, refund, override, drawer>>

TotalsRead(d) == req[d].toRead = {}

CloseWrite(d) ==
    LET expected == Expected(req[d].sales, req[d].refunds)
    IN /\ At(d, "close") /\ TotalsRead(d)
       /\ shift' = [shift EXCEPT ![req[d].shift] =
                       [status |-> "CLOSED", user |-> @.user, closing |-> req[d].count,
                        expected |-> expected, difference |-> req[d].count - expected]]
       /\ Goes(d, Idle)
       /\ UNCHANGED <<payment, refund, override, drawer>>

-----------------------------------------------------------------------------
(* requestOverride, decideOverride, reopenShift *)

MayAsk(s) == PendingOverrides(s) = {}

OverrideRead(d, s, count) ==
    /\ shift[s].status = "CLOSED" /\ shift[s].user = User[d] /\ MayAsk(s)
    /\ Len(override) + Under({"override"}) < MaxOverrides
    /\ Starts(d, [step |-> "override", shift |-> s, count |-> count])

OverrideCreate(d) ==
    /\ At(d, "override")
    /\ override' = Append(override, [shift |-> req[d].shift, count |-> req[d].count,
                                     status |-> "PENDING"])
    /\ Goes(d, Idle)
    /\ UNCHANGED <<shift, payment, refund, drawer>>

Decidable(o) == override[o].status = "PENDING"

DecideFind(d, o, approve) ==
    /\ User[d] = Admin /\ Decidable(o)
    /\ Starts(d, [step |-> "decide", override |-> o, approve |-> approve])

ReconcilesAnyway(r) == override[r.override].count # None
Reconciles(r) == r.approve /\ override[r.override].count # None

\* The transaction writes the override row first, and keeps it until it commits.
DecideLock(d) ==
    LET o == req[d].override
    IN /\ At(d, "decide")
       /\ \A e \in Desks : At(e, "reconcile") => req[e].override # o
       /\ Goes(d, [step |-> "reconcile", shift |-> override[o].shift, override |-> o,
                   approve |-> req[d].approve,
                   toRead |-> IF Reconciles(req[d]) THEN Totals ELSE {},
                   sales |-> {}, refunds |-> {}])
       /\ UNCHANGED <<shift, payment, refund, override, drawer>>

\* The expected cash is used for the difference and not written.
DecideWrite(d) ==
    LET o == req[d].override
    IN /\ At(d, "reconcile") /\ TotalsRead(d)
       /\ override' = [override EXCEPT ![o].status =
                          IF req[d].approve THEN "APPROVED" ELSE "REJECTED"]
       /\ shift' = IF Reconciles(req[d])
                   THEN [shift EXCEPT
                           ![req[d].shift].closing = override[o].count,
                           ![req[d].shift].difference =
                              override[o].count - Expected(req[d].sales, req[d].refunds)]
                   ELSE shift
       /\ Goes(d, Idle)
       /\ UNCHANGED <<payment, refund, drawer>>

ReopenRead(d, s) ==
    /\ User[d] = Admin /\ shift[s].status = "CLOSED"
    /\ Starts(d, [step |-> "reopen", shift |-> s])

ReopenWrite(d) ==
    /\ At(d, "reopen")
    /\ shift' = [shift EXCEPT ![req[d].shift] = NewShift(@.user)]
    /\ Goes(d, Idle)
    /\ UNCHANGED <<payment, refund, override, drawer>>

-----------------------------------------------------------------------------
Init ==
    /\ shift = <<>> /\ refund = <<>> /\ override = <<>> /\ drawer = <<>>
    /\ payment = [p \in Payments |->
                     [status |-> IF p \in Cash THEN "UNPAID" ELSE "PENDING", shift |-> None]]
    /\ req = [d \in Desks |-> Idle]

Begin(d) ==
    \/ OpenCheck(d)
    \/ \E p \in Cash : CollectRead(d, p)
    \/ \E p \in Online : LinkRead(d, p)
    \/ \E p \in Payments : RefundRead(d, p)
    \/ \E count \in Counts : CloseFind(d, count)
    \/ \E s \in Shifts, count \in Counts \cup {None} : OverrideRead(d, s, count)
    \/ \E o \in DOMAIN override, approve \in BOOLEAN : DecideFind(d, o, approve)
    \/ \E s \in Shifts : ReopenRead(d, s)

Continue(d) ==
    \/ NextShiftNumber(d) \/ CreateShift(d)
    \/ CollectWrite(d) \/ LinkWrite(d) \/ RefundCreate(d)
    \/ ReadSales(d) \/ ReadRefunds(d) \/ CloseWrite(d)
    \/ OverrideCreate(d) \/ DecideLock(d) \/ DecideWrite(d)
    \/ ReopenWrite(d)

Elsewhere ==
    \/ \E p \in Online : OnlinePaid(p)
    \/ \E i \in DOMAIN refund : ApproveRefund(i) \/ RejectRefund(i)

Next == (\E d \in Desks : Begin(d) \/ Continue(d)) \/ Elsewhere

Spec == Init /\ [][Next]_vars

-----------------------------------------------------------------------------
(* Correctness *)

TypeOK ==
    /\ shift \in Seq(ShiftRow)
    /\ payment \in [Payments -> PaymentRow]
    /\ refund \in Seq(RefundRow)
    /\ override \in Seq(OverrideRow)
    /\ drawer \in [Shifts -> Int]
    /\ req \in [Desks -> Request]
    /\ \A p \in Payments : payment[p].shift \in Shifts \cup {None}
    /\ \A i \in DOMAIN refund : refund[i].shift \in Shifts \cup {None}
    /\ \A o \in DOMAIN override : override[o].shift \in Shifts

OneDesk(c) == \A d, e \in Desks : User[d] = c /\ User[e] = c => d = e

\* A cashier who works at one desk: nobody but that desk closes or fills the drawer.
OnTheirOwn == {c \in Cashiers : OneDesk(c)}

FromItsDrawer(p, s) ==
    /\ s \in Shifts \cup {None}
    /\ p \in Cash /\ payment[p].shift # None => s = payment[p].shift
    /\ p \in Online => s = None

\* What a desk goes on with is still what it looked up: a cashier's own shift, open
\* if nobody else serves that cashier; a payment of the right method; a collected
\* payment and the drawer to refund it from; a request that is still pending, and a
\* shift that is still closed, if one administrator decides.
DesksHoldTheirOwn ==
    \A d \in Desks :
        LET r == req[d]
        IN /\ r.step \in {"collect", "link", "close"} /\ r.shift # None =>
                 /\ r.shift \in Shifts /\ shift[r.shift].user = User[d]
                 /\ User[d] \in OnTheirOwn => shift[r.shift].status = "OPEN"
           /\ r.step \in {"number", "create", "link", "close"} => User[d] \in Cashiers
           /\ r.step = "collect" => r.payment \in Cash /\ (r.shift = None <=> User[d] = Admin)
           /\ r.step = "link" => r.payment \in Online /\ r.shift # None
           /\ r.step = "refund" =>
                 Collected(r.payment) /\ FromItsDrawer(r.payment, r.shift)
           /\ r.step \in {"override", "reopen"} => r.shift \in Shifts
           /\ r.step = "reopen" /\ OneDesk(Admin) => shift[r.shift].status = "CLOSED"
           /\ r.step \in {"decide", "reconcile", "reopen"} => User[d] = Admin
           /\ r.step \in {"decide", "reconcile"} =>
                 /\ r.override \in DOMAIN override
                 /\ OneDesk(Admin) => override[r.override].status = "PENDING"
           /\ r.step = "reconcile" => r.shift = override[r.override].shift

DrawerInv == TypeOK /\ DesksHoldTheirOwn

\* Money that was taken stays in the drawer it was taken into, and a QRIS stays in
\* the shift it was linked to: the updates are guarded by UNPAID and by a null
\* shiftId, whatever the desk had read.
MoneyStaysInItsDrawer ==
    [][\A p \in Payments :
         /\ payment[p].shift # None => payment'[p].shift = payment[p].shift
         /\ Collected(p) /\ p \in Cash => payment'[p].shift = payment[p].shift]_vars

\* A refund of cash comes out of the drawer that took it, whoever asks for it and
\* whichever shifts were opened, closed or reopened since.
RefundLeavesItsDrawer ==
    \A i \in DOMAIN refund : FromItsDrawer(refund[i].payment, refund[i].shift)

\* What computeShiftTotals expects in a drawer is what is in it, less every payment
\* that was refunded in full: its amount is subtracted twice, because the row is no
\* longer PAID and its refunds are APPROVED.
ExpectedIsTheDrawerLessRefunded ==
    \A s \in Shifts :
        Expected(SalesOf(s), RefundsOf(s)) =
            drawer[s] - MapThenSumSet(LAMBDA p : Due[p], CollectedIn(s) \ SalesOf(s))

\* "Expected cash at close = openingCash + cash collected - cash refunded".
ExpectedIsTheDrawer ==
    \A s \in Shifts : Expected(SalesOf(s), RefundsOf(s)) = drawer[s]

\* While a cashier at one desk closes a shift, no cash comes in behind the sales
\* that were read, and it is still that cashier's open shift: closeShift writes by
\* id and reads its totals before.
CloseMissesNoCash ==
    \A d \in Desks : At(d, "close") /\ User[d] \in OnTheirOwn =>
        LET s == req[d].shift
        IN /\ shift[s].status = "OPEN" /\ shift[s].user = User[d]
           /\ "sales" \notin req[d].toRead => SalesOf(s) \subseteq req[d].sales

\* No cash enters a closed drawer of such a cashier.
ClosedDrawerTakesNoCash ==
    [][\A s \in Shifts : shift[s].user \in OnTheirOwn /\ shift[s].status = "CLOSED" =>
         CollectedIn(s)' = CollectedIn(s)]_vars

\* The ways in which the row of a shift may change.  It is reopened without any
\* figures; with one administrator it was closed until then.
Reopened(s) ==
    /\ shift'[s] = NewShift(shift[s].user)
    /\ OneDesk(Admin) => shift[s].status = "CLOSED"

\* It is counted and closed; a shift of a cashier at one desk was open until then.
CountedAndClosed(s) ==
    LET row == shift'[s]
    IN /\ shift[s].user \in OnTheirOwn => shift[s].status = "OPEN"
       /\ row.status = "CLOSED" /\ row.user = shift[s].user
       /\ row.difference = row.closing - row.expected

\* The override that is approved in this step, and with one administrator was
\* undecided before it, puts its count in the place of the cashier's: status, owner
\* and expected cash stay.
Corrected(s) ==
    \E o \in DOMAIN override :
        /\ override[o].shift = s /\ override'[o].status = "APPROVED"
        /\ OneDesk(Admin) => override[o].status = "PENDING"
        /\ shift'[s] = [shift[s] EXCEPT !.closing = override[o].count,
                                       !.difference = shift'[s].difference]

\* However closings, decisions and reopenings overlap, no shift changes in another
\* way: what was counted is overwritten only by the approval of an override, which
\* spends it, and no shift is closed twice or reopened while it is open (closeShift,
\* decideOverride and reopenShift all write by id what they looked up before).
EveryShiftChangeHasACause ==
    [][\A s \in Shifts :
         shift'[s] # shift[s] => Reopened(s) \/ CountedAndClosed(s) \/ Corrected(s)]_vars

\* "One OPEN shift per cashier per branch at a time".
OneOpenShift == \A c \in Cashiers : Cardinality(OpenShifts(c)) <= 1

=============================================================================
