-------------------------- MODULE PaymentLifecycle --------------------------
(***************************************************************************)
(* What a payment row may go through, whichever requests write it and in   *)
(* whatever order they run.                                                *)
(***************************************************************************)
EXTENDS PaymentRows

VARIABLE row

IsCash == row.method = "KASIR"

Start == row \in {NoPayment, NewRow("KASIR", "UNPAID")}

To(st) == row' = [row EXCEPT !.st = st]

\* A cashier row starts UNPAID, an online one PENDING.
Open ==
    /\ row.st = "NONE"
    /\ row' \in {NewRow("KASIR", "UNPAID"), NewRow("QRIS", "PENDING"),
                 NewRow("VA", "PENDING")}

\* A row that was not collected gives way to another method; a virtual account
\* never does.
Supersede ==
    /\ \/ IsCash /\ row.st = "UNPAID"
       \/ row.method = "QRIS" /\ row.st \in {"PENDING", "FAILED", "EXPIRED"}
    /\ To("CANCELLED")

\* The gateway's answer, then the clock, fix the expiry of an online row.
Date ==
    /\ ~IsCash
    /\ \E e \in {"live", "past"} : row' = [row EXCEPT !.exp = e]

\* An online row that was not paid in time, or that the gateway refused.
Lose == ~IsCash /\ row.st = "PENDING" /\ \E st \in {"EXPIRED", "FAILED"} : To(st)

\* The cashier takes the money, once, and writes it in the ledger.
Take ==
    /\ IsCash /\ row.st = "UNPAID"
    /\ row' = [row EXCEPT !.st = "PAID", !.taken = 1]

\* The gateway reports on an online row that was not superseded.
Report ==
    /\ ~IsCash /\ row.st \notin {"NONE", "CANCELLED"}
    /\ \E res \in Callbacks : To(res)

GiveBack == row.st = "PAID" /\ To("REFUNDED")

\* The order was cancelled with the row still open.
Void == row.st \in {"UNPAID", "PENDING"} /\ To("FAILED")

Live ==
    Open \/ Supersede \/ Date \/ Lose \/ Take \/ Report \/ GiveBack \/ Void

Lifecycle == Start /\ [][Live]_row

=============================================================================
