------------------------------ MODULE Reservation ------------------------------
(***************************************************************************)
(* The reservations of one branch, and the order and payments that a        *)
(* reservation made by a guest carries.                                     *)
(*                                                                         *)
(* A reservation is made in one transaction that begins by locking the      *)
(* branch.  A transition, a collection and an intent read first and write   *)
(* in a later transaction.  A guest's reservation that nobody has paid      *)
(* holds its slot for a while; afterwards it is still PENDING, but it no    *)
(* longer stands in the way of others.                                      *)
(*                                                                         *)
(* An order gets at most one payment row of each method, KASIR and QRIS (a  *)
(* bound; a cashier's virtual account is in Settlement); FAILED             *)
(* stands for EXPIRED too, which no handler here tells apart, and REFUSED   *)
(* for a FAILED row the gateway never gave a reference, so that no callback *)
(* can find it.  The kitchen does not touch the order.                      *)
(***************************************************************************)
EXTENDS ReservationSlots, Sequences

CONSTANTS
    Slots,        \* requests that can be in flight at the same time
    Asks,         \* what may be asked for, by whom, and whether to pay in cash
    Hold,         \* RESERVATION_PAYMENT_HOLD_MINUTES
    Begin, Tick, End, \* the minutes the model looks at
    MaxRows       \* reservations that may be made

NoTable == "no table"
NoAccount == "no account"

ASSUME ReservationAssumption ==
    /\ \A a \in Asks : /\ a.window \in [day : Nat, start : Nat, duration : Nat]
                       /\ a.source \in {"PUBLIC", "ADMIN"}
                       /\ a.cash \in BOOLEAN
    /\ Hold \in Nat /\ Begin \in Nat /\ End \in Nat /\ Tick \in Nat \ {0}
    /\ MaxRows \in Nat

VARIABLES
    now,          \* minutes on the server's clock
    reservation,  \* the rows, in the order of their creation
    order,        \* order[i] is the order of reservation i
    req           \* what each request in flight is about to do

vars == <<now, reservation, order, req>>

-----------------------------------------------------------------------------
(* Rows *)

Rows == DOMAIN reservation

ReservationStatus ==
    {"PENDING", "CONFIRMED", "SEATED", "COMPLETED", "CANCELLED", "NO_SHOW"}

HoldingStatuses == {"PENDING", "CONFIRMED", "SEATED", "COMPLETED"}

ValidTransitions ==
    [PENDING   |-> {"CONFIRMED", "CANCELLED"},
     CONFIRMED |-> {"SEATED", "CANCELLED", "NO_SHOW"},
     SEATED    |-> {"COMPLETED"},
     COMPLETED |-> {}, CANCELLED |-> {}, NO_SHOW |-> {}]

ReservationRow ==
    [status : ReservationStatus, ask : Asks, created : Nat]

\* An order that does not exist, and its newest payment rows that do not.
NoOrder == [status |-> "NONE", pay |-> "NONE", cash |-> "NONE", online |-> "NONE"]

NewOrder(cash) ==
    [status |-> "PENDING", pay |-> "UNPAID",
     cash |-> IF cash THEN "UNPAID" ELSE "NONE", online |-> "NONE"]

OrderRow ==
    [status : {"NONE", "PENDING", "PROCESSING", "CANCELLED"},
     pay : {"NONE", "UNPAID", "PENDING", "PAID", "FAILED"},
     cash : {"NONE", "UNPAID", "PAID", "CANCELLED"},
     online : {"NONE", "PENDING", "PAID", "FAILED", "REFUSED", "CANCELLED"}]

Idle == [step |-> "idle"]

Request ==
    {Idle}
    \cup [step : {"expire", "intent", "counter"}, row : Nat]
    \cup [step : {"apply"}, row : Nat, from : ReservationStatus, to : ReservationStatus]
    \cup [step : {"collect"}, row : Nat, advance : BOOLEAN]

TypeOK ==
    /\ now \in Nat
    /\ reservation \in Seq(ReservationRow)
    /\ order \in Seq(OrderRow)
    /\ Len(order) = Len(reservation)
    /\ req \in [Slots -> Request]
    /\ \A s \in Slots : req[s] # Idle => req[s].row \in Rows

Table(i) == reservation[i].ask.table
Window(i) == reservation[i].ask.window
Account(i) == reservation[i].ask.account
Phone(i) == reservation[i].ask.phone
IsPublic(i) == reservation[i].ask.source = "PUBLIC"

\* Some payment row of the order is PAID, whatever the order's mirror says.
RowPaid(i) == order[i].cash = "PAID" \/ order[i].online = "PAID"

At(s, step) == req[s].step = step

Goes(s, r) == req' = [req EXCEPT ![s] = r]


-----------------------------------------------------------------------------
(* What holds a slot *)

\* activeReservationWhere: an unpaid reservation of a guest holds for a while.
Holding(i) ==
    /\ reservation[i].status \in HoldingStatuses
    /\ \/ reservation[i].status # "PENDING"
       \/ ~IsPublic(i)
       \/ reservation[i].created >= now - Hold

HoldingUnconfirmed(i) ==
    Holding(i) /\ reservation[i].status # "CONFIRMED"

\* The hold is over, in the words of the payment handlers.
Overdue(i) ==
    /\ IsPublic(i) /\ reservation[i].status = "PENDING"
    /\ now - reservation[i].created > Hold

TableTakenAtTheStart(t, w) ==
    \E i \in Rows : /\ Holding(i) /\ Table(i) = t
                    /\ SameStart(Window(i), w)

TableTaken(t, w) ==
    \E i \in Rows : /\ Holding(i) /\ Table(i) = t
                    /\ Overlaps(Window(i), w)

\* Whom the duplicate check looks for: the account of whoever is logged in, and
\* only without one the phone number.
IsGuest(i, ask) ==
    IF ask.account # NoAccount THEN Account(i) = ask.account ELSE Phone(i) = ask.phone

BookedByConfirmed(ask) ==
    \E i \in Rows : /\ HoldingUnconfirmed(i) /\ IsGuest(i, ask)
                    /\ SameStart(Window(i), ask.window)

\* The same guest at the same time, whatever the table.
BookedAlready(ask) ==
    \E i \in Rows : /\ Holding(i) /\ IsGuest(i, ask)
                    /\ SameStart(Window(i), ask.window)

-----------------------------------------------------------------------------
(* createReservation *)

\* A guest's reservation comes with its order; one that pays at the counter
\* has its cash row at once.
Reserve(ask) ==
    /\ Len(reservation) < MaxRows
    /\ ValidWindow(ask.window, now)
    /\ ask.table # NoTable => ~TableTaken(ask.table, ask.window)
    /\ ~BookedAlready(ask)
    /\ reservation' = Append(reservation,
           [status |-> "PENDING", ask |-> ask, created |-> now])
    /\ order' = Append(order, IF ask.source = "PUBLIC" THEN NewOrder(ask.cash) ELSE NoOrder)
    /\ UNCHANGED <<now, req>>

-----------------------------------------------------------------------------
(* Transitions *)

ConfirmableUnpaid(i) == IsPublic(i) => order[i].status # "NONE"

\* A guest's reservation is confirmed by hand only once its order is paid.
Confirmable(i) == IsPublic(i) => order[i].pay = "PAID"

Reads(s, i, to) ==
    /\ to \in ValidTransitions[reservation[i].status]
    /\ to = "CONFIRMED" => Confirmable(i)
    /\ Goes(s, [step |-> "apply", row |-> i, from |-> reservation[i].status, to |-> to])
    /\ UNCHANGED <<now, reservation, order>>

\* updateStatus, cancelReservation and the guest's own cancellation
Transition(s, i, to) == At(s, "idle") /\ Reads(s, i, to)

MatchesAnything(i, from) == reservation[i].status \in HoldingStatuses

\* The update is conditional on the status that was read.
Matches(i, from) == reservation[i].status = from

CancelledUnlessPaid(o) ==
    IF o.pay # "PAID" /\ o.status \in {"PENDING", "PROCESSING"}
    THEN [o EXCEPT !.status = "CANCELLED"] ELSE o

WithoutIntent(o) == [o EXCEPT !.online = IF @ = "PENDING" THEN "CANCELLED" ELSE @]

\* What cancelling does to the order: it is cancelled unless it is paid, and
\* its live intent is cancelled; a cash row is left as it is.
Cancelled(o) == WithoutIntent(CancelledUnlessPaid(o))

Apply(s) ==
    /\ At(s, "apply")
    /\ LET i == req[s].row  to == req[s].to IN
       IF Matches(i, req[s].from)
       THEN /\ reservation' = [reservation EXCEPT ![i].status = to]
            /\ order' = IF to = "CANCELLED"
                        THEN [order EXCEPT ![i] = Cancelled(@)] ELSE order
       ELSE UNCHANGED <<reservation, order>>
    /\ Goes(s, Idle)
    /\ UNCHANGED now

\* The cancellation that a payment handler asks for when the hold is over.
Expire(s) ==
    /\ At(s, "expire")
    /\ LET i == req[s].row IN
       IF "CANCELLED" \in ValidTransitions[reservation[i].status]
       THEN Reads(s, i, "CANCELLED")
       ELSE Goes(s, Idle) /\ UNCHANGED <<now, reservation, order>>

-----------------------------------------------------------------------------
(* Payment *)

\* The page of the reservation, and the cashier's QRIS: the hold must be running.
PayOnline(s, i) ==
    /\ At(s, "idle") /\ order[i].status # "NONE"
    /\ IF Overdue(i)
       THEN Goes(s, [step |-> "expire", row |-> i])
       ELSE /\ reservation[i].status # "CANCELLED"
            /\ order[i].pay # "PAID"
            /\ Goes(s, [step |-> "intent", row |-> i])
    /\ UNCHANGED <<now, reservation, order>>

\* The general payment routes ask for nothing but an unpaid order.
PayOrder(s, i, step) ==
    /\ At(s, "idle") /\ order[i].status # "NONE" /\ order[i].pay # "PAID"
    /\ Goes(s, [step |-> step, row |-> i])
    /\ UNCHANGED <<now, reservation, order>>

PayableUnlessPaid(i) == ~RowPaid(i)

\* Read under the lock of the order.
Payable(i) == order[i].status # "CANCELLED" /\ ~RowPaid(i)

Mirror(o, pay) == [o EXCEPT !.pay = IF @ = "PAID" THEN @ ELSE pay]

\* createPayment with QRIS: the cash row gives way; a live intent is reused.
CreateIntent(s) ==
    /\ At(s, "intent")
    /\ LET i == req[s].row
           o == [order[i] EXCEPT !.cash = IF @ = "UNPAID" THEN "CANCELLED" ELSE @]
       IN \/ /\ Payable(i) /\ o.online = "NONE"
             /\ order' = [order EXCEPT ![i] = Mirror([o EXCEPT !.online = "PENDING"], "PENDING")]
          \/ /\ Payable(i) /\ o.online = "PENDING"
             /\ order' = [order EXCEPT ![i] = o]
          \/ /\ Payable(i) => o.online \notin {"NONE", "PENDING"}
             /\ UNCHANGED order
    /\ Goes(s, Idle)
    /\ UNCHANGED <<now, reservation>>

\* createPayment with KASIR: the intents give way; a live cash row is reused.
ChooseCash(s) ==
    /\ At(s, "counter")
    /\ LET i == req[s].row
           o == [order[i] EXCEPT !.online = IF @ \in {"PENDING", "FAILED", "REFUSED"}
                                            THEN "CANCELLED" ELSE @]
       IN IF Payable(i) /\ o.cash \in {"NONE", "UNPAID"}
          THEN order' = [order EXCEPT ![i] = Mirror([o EXCEPT !.cash = "UNPAID"], "UNPAID")]
          ELSE UNCHANGED order
    /\ Goes(s, Idle)
    /\ UNCHANGED <<now, reservation>>

\* The gateway refuses the intent, or does not answer: the intent fails.
GatewayFails(i) ==
    /\ order[i].online = "PENDING"
    /\ order' = [order EXCEPT ![i].online = "REFUSED",
                              ![i].pay = IF @ = "PENDING" THEN "FAILED" ELSE @]
    /\ UNCHANGED <<now, reservation, req>>

\* confirmFromPaidOrderInTransaction: only a PENDING reservation is confirmed.
ConfirmFromPaid(i) ==
    IF reservation[i].status = "PENDING"
    THEN [reservation EXCEPT ![i].status = "CONFIRMED"] ELSE reservation

\* markCashierPaymentPaid reads the row, the hold and the order's status.
StartCollect(s, i, form) ==
    /\ At(s, "idle") /\ order[i].cash # "NONE"
    /\ IF Overdue(i)
       THEN Goes(s, [step |-> "expire", row |-> i])
       ELSE /\ order[i].cash # "PAID" /\ order[i].pay # "PAID"
            /\ Goes(s, [step |-> "collect", row |-> i,
                        advance |-> /\ form \/ order[i].online # "NONE"
                                    /\ order[i].status = "PENDING"])
    /\ UNCHANGED <<now, reservation, order>>

\* An order that was PENDING when it was read becomes PROCESSING, whatever it is now.
Collect(s) ==
    /\ At(s, "collect")
    /\ LET i == req[s].row IN
       IF order[i].cash = "UNPAID"
       THEN /\ order' = [order EXCEPT ![i].cash = "PAID", ![i].pay = "PAID",
                             ![i].status = IF req[s].advance THEN "PROCESSING" ELSE @]
            /\ reservation' = ConfirmFromPaid(i)
       ELSE UNCHANGED <<order, reservation>>
    /\ Goes(s, Idle)
    /\ UNCHANGED now

\* handleWebhook: a row that is neither paid nor cancelled takes the result;
\* the order mirrors it only while it still shows the row's old status.
Webhook(i, result) ==
    /\ order[i].online \in {"PENDING", "FAILED"}
    /\ order' = [order EXCEPT ![i].online = result,
                              ![i].pay = IF @ = order[i].online THEN result ELSE @]
    /\ reservation' = IF result = "PAID" THEN ConfirmFromPaid(i) ELSE reservation
    /\ UNCHANGED <<now, req>>

-----------------------------------------------------------------------------

Clock ==
    /\ now + Tick <= End
    /\ now' = now + Tick
    /\ UNCHANGED <<reservation, order, req>>

Init ==
    /\ now = Begin
    /\ reservation = <<>> /\ order = <<>>
    /\ req = [s \in Slots |-> Idle]

Next ==
    \/ Clock
    \/ \E ask \in Asks : Reserve(ask)
    \/ \E s \in Slots :
          \/ Apply(s) \/ Expire(s) \/ CreateIntent(s) \/ ChooseCash(s) \/ Collect(s)
          \/ \E i \in Rows :
                \/ \E to \in ReservationStatus : Transition(s, i, to)
                \/ PayOnline(s, i)
                \/ \E step \in {"intent", "counter"} : PayOrder(s, i, step)
                \/ \E form \in BOOLEAN : StartCollect(s, i, form)
    \/ \E i \in Rows :
          \/ GatewayFails(i)
          \/ \E result \in {"PAID", "FAILED"} : Webhook(i, result)

Spec == Init /\ [][Next]_vars

-----------------------------------------------------------------------------
(* Properties *)

Minutes(w) == {w.day * MinutesPerDay + m : m \in w.start..(w.start + w.duration - 1)}

Clash(i, j) ==
    /\ Table(i) = Table(j) /\ Table(i) # NoTable
    /\ Minutes(Window(i)) \cap Minutes(Window(j)) # {}

\* By the account or by the phone number.
SamePerson(i, j) ==
    \/ Account(i) = Account(j) /\ Account(i) # NoAccount
    \/ Phone(i) = Phone(j)

Twins(i, j) == SamePerson(i, j) /\ SameStart(Window(i), Window(j))

\* Reservation j was made logged in, and i was not, or by another account.
UnderAnotherAccount(i, j) == Account(j) # NoAccount /\ Account(j) # Account(i)

\* Reservation i was paid after reservation j was made because i's hold was over.
PaidTooLate(i, j) ==
    /\ IsPublic(i)
    /\ reservation[j].created - reservation[i].created > Hold
    /\ RowPaid(i)

\* Two reservations hold a table for a common minute only when the earlier
\* one is a guest's that was paid after its hold was over and the table was
\* given to the later one: nothing else, in any order of requests, sells a
\* table twice.  (The overlap gate of createReservation, reservation.service.ts 986-1010.)
TableIsSoldOnce ==
    \A i, j \in Rows : i < j /\ Holding(i) /\ Holding(j) /\ Clash(i, j) => PaidTooLate(i, j)

\* One guest, known by account or by phone number, holds one reservation at a time,
\* with two exceptions: the one above, and a guest who logs in to an account that the
\* earlier reservation was not made under, since whoever is logged in is looked up by
\* account alone (the duplicate check of createReservation, reservation.service.ts
\* 1012-1036, "race-safe").
GuestBooksOnce ==
    \A i, j \in Rows : i < j /\ Holding(i) /\ Holding(j) /\ Twins(i, j) =>
        PaidTooLate(i, j) \/ UnderAnotherAccount(i, j)

\* A guest's reservation goes past PENDING, other than to CANCELLED, exactly
\* with a payment row that is PAID: it is never confirmed on an unpaid order,
\* and a payment that lands never leaves it waiting.
ConfirmedWithItsPayment ==
    /\ TypeOK
    /\ \A i \in Rows : IsPublic(i) =>
          /\ reservation[i].status = "PENDING" => ~RowPaid(i)
          /\ reservation[i].status \notin {"PENDING", "CANCELLED"} => RowPaid(i)

\* A cancelled reservation leaves no live intent that a callback could settle,
\* whatever was under way when it was cancelled, and no open order unless paid.
CancelledLeavesNothingOpen ==
    \A i \in Rows : reservation[i].status = "CANCELLED" =>
        /\ order[i].online # "PENDING"
        /\ order[i].status \in {"NONE", "CANCELLED"} \/ RowPaid(i)

\* Whatever a request read, a status moves only along the matrix: no cancelled
\* or finished reservation comes back, and none is overwritten by a late request.
MovesAreValid ==
    [][\A i \in Rows : reservation'[i].status # reservation[i].status =>
            reservation'[i].status \in ValidTransitions[reservation[i].status]]_vars

\* The page offers exactly the starts that the server accepts at that moment.
OfferedIsAccepted ==
    \A day \in Today(now)..(Today(now) + MaxHorizon) :
        BuildSlots(day, DefaultDuration, now) =
            {start \in (SlotStart - 1)..(SlotEnd + 1) :
                ValidWindow([day |-> day, start |-> start, duration |-> DefaultDuration], now)}

\* No two reservations hold a table for a common minute.  NOT kept.
NeverDoubleBooked ==
    \A i, j \in Rows : i < j /\ Holding(i) /\ Holding(j) => ~Clash(i, j)
===============================================================================
