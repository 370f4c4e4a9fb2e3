----------------------------- MODULE PaymentRows -----------------------------
(* The shape of a payment row. *)
EXTENDS Naturals

CONSTANT Callbacks    \* results the gateway may report for a transaction

ASSUME CallbacksAssumption ==
    Callbacks \subseteq {"PAID", "FAILED", "EXPIRED", "CANCELLED"}

PaymentStatus ==
    {"UNPAID", "PENDING", "PAID", "FAILED", "EXPIRED", "REFUNDED", "CANCELLED"}

\* exp is the row's expiresAt against the clock; it is "none" until the
\* gateway's answer is stored, together with providerRef.  taken counts the
\* row's "cashier_payment" ledger entries.
PaymentRow ==
    [st : PaymentStatus \cup {"NONE"}, method : {"KASIR", "QRIS", "VA"},
     exp : {"none", "live", "past"}, taken : Nat]

NoPayment == [st |-> "NONE", method |-> "KASIR", exp |-> "none", taken |-> 0]

NewRow(method, st) ==
    [st |-> st, method |-> method, exp |-> "none", taken |-> 0]

\* Money that came in, whether or not it went back.
CollectedStatuses == {"PAID", "REFUNDED"}

=============================================================================
