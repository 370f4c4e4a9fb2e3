--------------------------- MODULE CashDrawerProofs ---------------------------
(***************************************************************************)
(* Cash stays in the drawer that took it, comes back out of that drawer,    *)
(* and a closing count misses none of it: for any number of cashiers,       *)
(* desks, payments, refunds, shifts and overrides.                         *)
(*                                                                         *)
(* What a desk has looked up stays true because no other desk takes it      *)
(* away (Leaves): whoever works at one desk only has nobody to fear.        *)
(* The sums come in the second half, from FigureInv on: before that, amounts *)
(* and figures have any set as their type.                                  *)
(***************************************************************************)
EXTENDS CashDrawer, Sums, TLAPS

-----------------------------------------------------------------------------
(* The inductive invariant *)

ShiftRows(V) ==
    [status : {"OPEN", "CLOSED"}, user : Cashiers, closing : V, expected : V, difference : V]

RefundRows(V) ==
    [payment : Payments, shift : MaybeShift, amount : V,
     status : {"PENDING", "APPROVED", "REJECTED"}]

Shape ==
    /\ \E V : shift \in Seq(ShiftRows(V))
    /\ payment \in [Payments -> PaymentRow]
    /\ \E V : refund \in Seq(RefundRows(V))
    /\ override \in Seq(OverrideRow)
    /\ DOMAIN req = Desks

\* A payment is in a shift there is, and cash in none before it is collected.
PaymentsInv ==
    \A p \in Payments :
        /\ payment[p].shift \in Shifts \cup {None}
        /\ p \in Cash /\ ~Collected(p) => payment[p].shift = None

RefundsInv ==
    \A i \in DOMAIN refund :
        Collected(refund[i].payment) /\ FromItsDrawer(refund[i].payment, refund[i].shift)

OverridesInv == \A o \in DOMAIN override : override[o].shift \in Shifts

\* DesksHoldTheirOwn, for one desk.
HoldsItsOwn(d, r) ==
    /\ r.step \in {"collect", "link", "close"} /\ r.shift # None =>
          /\ r.shift \in Shifts /\ shift[r.shift].user = User[d]
          /\ User[d] \in OnTheirOwn => shift[r.shift].status = "OPEN"
    /\ r.step \in {"number", "create", "link", "close"} => User[d] \in Cashiers
    /\ r.step = "collect" => r.payment \in Cash /\ (r.shift = None <=> User[d] = Admin)
    /\ r.step = "link" => r.payment \in Online /\ r.shift # None
    /\ r.step = "refund" =>
          Collected(r.payment) /\ FromItsDrawer(r.payment, r.shift)
    /\ r.step \in {"override", "reopen"} => r.shift \in Shifts
    /\ r.step = "reopen" /\ OneDesk(Admin) => shift[r.shift].status = "CLOSED"
    /\ r.step \in {"decide", "reconcile", "reopen"} => User[d] = Admin
    /\ r.step \in {"decide", "reconcile"} =>
          /\ r.override \in DOMAIN override
          /\ OneDesk(Admin) => override[r.override].status = "PENDING"
    /\ r.step = "reconcile" => r.shift = override[r.override].shift

\* What the other handlers have in hand.
Fits(r) ==
    /\ r.step \in {"close", "reconcile"} => r \in Totalling
    /\ r.step = "refund" => r.payment \in Payments /\ r.shift \in MaybeShift
    /\ r.step = "override" => r.count \in Counts \cup {None}
    /\ r.step = "decide" => r.approve \in BOOLEAN

\* CloseMissesNoCash, for one desk.
MissesNone(d, r) ==
    r.step = "close" /\ User[d] \in OnTheirOwn /\ "sales" \notin r.toRead =>
        SalesOf(r.shift) \subseteq r.sales

DeskInv(d, r) == Fits(r) /\ HoldsItsOwn(d, r) /\ MissesNone(d, r)

DesksInv == \A d \in Desks : DeskInv(d, req[d])

CashInv == Shape /\ PaymentsInv /\ RefundsInv /\ OverridesInv /\ DesksInv

-----------------------------------------------------------------------------
(* What a step takes away from the desks that do not take it *)

Leaves(D) ==
    /\ Shifts \subseteq Shifts'
    /\ \A s \in Shifts :
          /\ shift'[s].user = shift[s].user
          /\ shift[s].status = "OPEN" /\ shift'[s].status # "OPEN" =>
                \E d \in D : At(d, "close") /\ req[d].shift = s
          /\ shift[s].status = "CLOSED" /\ shift'[s].status # "CLOSED" =>
                \E d \in D : At(d, "reopen")
    /\ \A p \in Payments :
          /\ Collected(p) => Collected(p)'
          /\ payment[p].shift # None => payment'[p].shift = payment[p].shift
          /\ Collected(p) /\ p \in Cash => payment'[p].shift = payment[p].shift
          /\ Collected(p)' /\ p \in Cash =>
                \/ /\ Collected(p) /\ (payment'[p].status = "PAID" => payment[p].status = "PAID")
                \/ \E d \in D : At(d, "collect") /\ req[d].shift = payment'[p].shift
    /\ DOMAIN override \subseteq DOMAIN override'
    /\ \A o \in DOMAIN override :
          /\ override'[o].shift = override[o].shift
          /\ override'[o] # override[o] =>
                \E d \in D : At(d, "reconcile") /\ req[d].override = o
    /\ \A d \in Desks \ D : req'[d] = req[d]

\* A drawer that is charged for a payment remains the one to be charged.
LEMMA ChargeStays ==
    ASSUME Shape, NEW D, Leaves(D), NEW p \in Payments, NEW s, Collected(p), FromItsDrawer(p, s)
    PROVE  Collected(p)' /\ FromItsDrawer(p, s)'
BY DEF Leaves, FromItsDrawer

LEMMA DeskKeeps ==
    ASSUME CashInv, NEW D \in SUBSET Desks, Leaves(D), NEW d \in Desks \ D
    PROVE  DeskInv(d, req[d])'
<1>1. PICK r : r = req[d]
  OBVIOUS
<1>2. DeskInv(d, r)
  BY <1>1 DEF CashInv, DesksInv
<1>3. req'[d] = r
  BY <1>1 DEF Leaves
<1>4. ASSUME NEW e \in D, req[e].step \in {"close", "collect"},
             r.step \in {"collect", "link", "close"}, r.shift # None,
             req[e].shift = r.shift, User[d] \in OnTheirOwn
      PROVE  FALSE
  <2>1. e \in Desks /\ d \in Desks /\ d # e
    OBVIOUS
  <2>2. shift[r.shift].user = User[e] /\ shift[r.shift].user = User[d]
    BY <1>2, <1>4, <2>1 DEF CashInv, DesksInv, DeskInv, HoldsItsOwn
  <2> QED BY <1>4, <2>1, <2>2 DEF OnTheirOwn, OneDesk
<1>5. Fits(r)'
  BY <1>2 DEF DeskInv, Fits
<1>6. r.step \in {"collect", "link", "close"} /\ r.shift # None =>
          /\ r.shift \in Shifts' /\ shift'[r.shift].user = User[d]
          /\ User[d] \in OnTheirOwn => shift'[r.shift].status = "OPEN"
  BY <1>2, <1>4 DEF DeskInv, HoldsItsOwn, Leaves, At
<1>7. r.step = "refund" => Collected(r.payment)' /\ FromItsDrawer(r.payment, r.shift)'
  BY <1>2, ChargeStays DEF DeskInv, HoldsItsOwn, Fits, CashInv
<1>8. r.step \in {"decide", "reconcile"} =>
          /\ r.override \in DOMAIN override' /\ override'[r.override].shift = override[r.override].shift
          /\ OneDesk(Admin) => override'[r.override].status = "PENDING"
  <2>1. ASSUME NEW e \in D, req[e].step = "reconcile", r.step \in {"decide", "reconcile"},
               OneDesk(Admin)
        PROVE  FALSE
    <3>1. e \in Desks /\ d \in Desks /\ d # e
      OBVIOUS
    <3>2. User[e] = Admin /\ User[d] = Admin
      BY <1>2, <2>1, <3>1 DEF CashInv, DesksInv, DeskInv, HoldsItsOwn
    <3> QED BY <2>1, <3>1, <3>2 DEF OneDesk
  <2> QED BY <1>2, <2>1 DEF DeskInv, HoldsItsOwn, Leaves, At
<1>9. r.step = "reopen" /\ OneDesk(Admin) => shift'[r.shift].status = "CLOSED"
  <2>1. ASSUME NEW e \in D, req[e].step = "reopen", r.step = "reopen", OneDesk(Admin)
        PROVE  FALSE
    <3>1. e \in Desks /\ d \in Desks /\ d # e
      OBVIOUS
    <3>2. User[e] = Admin /\ User[d] = Admin
      BY <1>2, <2>1, <3>1 DEF CashInv, DesksInv, DeskInv, HoldsItsOwn
    <3> QED BY <2>1, <3>1, <3>2 DEF OneDesk
  <2> QED BY <1>2, <2>1 DEF DeskInv, HoldsItsOwn, Leaves, At
<1>10. HoldsItsOwn(d, r)'
  BY <1>2, <1>6, <1>7, <1>8, <1>9 DEF DeskInv, HoldsItsOwn, Leaves
<1>11. MissesNone(d, r)'
  <2>1. SUFFICES ASSUME r.step = "close", User[d] \in OnTheirOwn, "sales" \notin r.toRead,
                        NEW p \in SalesOf(r.shift)'
                 PROVE  p \in r.sales
    BY DEF MissesNone
  <2>2. r.shift \in Nat /\ r.shift # None
    BY <1>2, <2>1, BoundsAssumption DEF DeskInv, Fits, Totalling
  <2>3. /\ p \in Cash /\ p \in Payments /\ Collected(p)' /\ payment'[p].shift = r.shift
        /\ payment'[p].status = "PAID"
    BY <2>1 DEF SalesOf, CollectedIn, Payments
  <2>4. ~\E e \in D : At(e, "collect") /\ req[e].shift = payment'[p].shift
    BY <1>4, <2>1, <2>2, <2>3 DEF At
  <2>5. Collected(p) /\ payment[p].status = "PAID" /\ payment[p].shift = r.shift
    BY <2>3, <2>4 DEF Leaves
  <2>6. p \in SalesOf(r.shift)
    BY <2>3, <2>5 DEF SalesOf, CollectedIn
  <2> QED BY <1>2, <2>1, <2>6 DEF DeskInv, MissesNone
<1> QED BY <1>3, <1>5, <1>10, <1>11 DEF DeskInv, Fits, HoldsItsOwn, MissesNone

\* Everything else follows from the rows and the desks that took the step.
LEMMA DesksKeep ==
    ASSUME CashInv, NEW D \in SUBSET Desks, Leaves(D),
           Shape', PaymentsInv', RefundsInv', OverridesInv',
           \A d \in D : DeskInv(d, req[d])'
    PROVE  CashInv'
<1>1. ASSUME NEW d \in Desks
      PROVE  DeskInv(d, req[d])'
  <2>1. CASE d \in D
    BY <2>1
  <2>2. CASE d \notin D
    BY <2>2, DeskKeeps
  <2> QED BY <2>1, <2>2
<1> QED BY <1>1 DEF CashInv, DesksInv

\* Every change of a shift has its cause.
ShiftsKept ==
    \A s \in Shifts :
        shift'[s] # shift[s] => Reopened(s) \/ CountedAndClosed(s) \/ Corrected(s)

Kept == CashInv' /\ ShiftsKept /\ \E D \in SUBSET Desks : Leaves(D)

\* A desk that only looks something up, or does nothing with what it has.
LEMMA Looking ==
    ASSUME CashInv, NEW d \in Desks, NEW r, Goes(d, r), DeskInv(d, r),
           UNCHANGED <<shift, payment, refund, override>>
    PROVE  Kept
<1>1. DOMAIN req' = Desks /\ req'[d] = r /\ \A e \in Desks \ {d} : req'[e] = req[e]
  BY DEF CashInv, Shape, Goes
<1>2. Leaves({d}) /\ ShiftsKept
  BY <1>1 DEF Leaves, ShiftsKept, Shifts, Collected
<1>3. Shape' /\ PaymentsInv' /\ RefundsInv' /\ OverridesInv'
  BY <1>1 DEF CashInv, Shape, PaymentsInv, RefundsInv, OverridesInv, Shifts, Collected,
              FromItsDrawer
<1>4. DeskInv(d, req[d])'
  BY <1>1 DEF DeskInv, Fits, HoldsItsOwn, MissesNone, Shifts, Collected, FromItsDrawer,
              SalesOf, CollectedIn
<1>5. \A e \in {d} : DeskInv(e, req[e])'
  BY <1>4 DEF DeskInv, Fits, HoldsItsOwn, MissesNone
<1>6. CashInv'
  BY <1>2, <1>3, <1>5, DesksKeep
<1> QED BY <1>2, <1>6 DEF Kept

LEMMA IdleHolds == \A d \in Desks : DeskInv(d, Idle) /\ DeskInv(d, Idle)'
BY DEF DeskInv, Fits, HoldsItsOwn, MissesNone, Idle

\* A desk that is done.
LEMMA Answered ==
    ASSUME CashInv, NEW d \in Desks, Goes(d, Idle)
    PROVE  /\ DOMAIN req' = Desks /\ req'[d] = Idle
           /\ \A e \in Desks \ {d} : req'[e] = req[e]
BY DEF CashInv, Shape, Goes

\* A desk that has written its rows and is done.
LEMMA Writing ==
    ASSUME CashInv, NEW d \in Desks, Goes(d, Idle), ShiftsKept, Leaves({d}),
           Shape', PaymentsInv', RefundsInv', OverridesInv'
    PROVE  Kept
<1>1. DOMAIN req' = Desks /\ req'[d] = Idle
  BY Answered
<1>2. DeskInv(d, req[d])'
  <2>1. DeskInv(d, Idle)'
    BY IdleHolds
  <2> QED BY <1>1, <2>1 DEF DeskInv, Fits, HoldsItsOwn, MissesNone
<1>3. \A e \in {d} : DeskInv(e, req[e])'
  BY <1>2 DEF DeskInv, Fits, HoldsItsOwn, MissesNone
<1>4. CashInv'
  BY <1>1, <1>3, DesksKeep
<1> QED BY <1>1, <1>4 DEF Kept

-----------------------------------------------------------------------------
(* Looking things up *)

\* The open shifts of a user are a cashier's own.
LEMMA OpenOnes ==
    ASSUME CashInv, NEW d \in Desks, NEW s \in OpenShifts(User[d])
    PROVE  /\ s \in Shifts /\ s \in Nat /\ s # None
           /\ shift[s].user = User[d] /\ shift[s].status = "OPEN"
           /\ User[d] \in Cashiers /\ User[d] # Admin
<1>1. PICK V : shift \in Seq(ShiftRows(V))
  BY DEF CashInv, Shape
<1>2. s \in Shifts /\ shift[s].user = User[d] /\ shift[s].status = "OPEN"
  BY DEF OpenShifts
<1>3. s \in Nat /\ shift[s] \in ShiftRows(V)
  BY <1>1, <1>2 DEF Shifts
<1> QED BY <1>2, <1>3, UsersAssumption, BoundsAssumption DEF ShiftRows

LEMMA OpenCheckKeeps ==
    ASSUME CashInv, NEW d \in Desks, OpenCheck(d) PROVE Kept
<1>1. DeskInv(d, [step |-> "number", tries |-> 0])
  BY DEF OpenCheck, DeskInv, Fits, HoldsItsOwn, MissesNone
<1> QED BY <1>1, Looking DEF OpenCheck, Starts, Goes

LEMMA CollectReadKeeps ==
    ASSUME CashInv, NEW d \in Desks, NEW p \in Cash, CollectRead(d, p) PROVE Kept
<1>1. PICK s \in DrawersOf(User[d]) :
         Starts(d, [step |-> "collect", payment |-> p, shift |-> s])
  BY DEF CollectRead
<1>2. \/ s \in OpenShifts(User[d])
      \/ s = None /\ User[d] \notin Cashiers
  BY DEF DrawersOf
<1>3. DeskInv(d, [step |-> "collect", payment |-> p, shift |-> s])
  BY <1>2, OpenOnes, UsersAssumption DEF DeskInv, Fits, HoldsItsOwn, MissesNone
<1> QED BY <1>1, <1>3, Looking DEF Starts, Goes

LEMMA LinkReadKeeps ==
    ASSUME CashInv, NEW d \in Desks, NEW p \in Online, LinkRead(d, p) PROVE Kept
<1>1. PICK s \in OpenShifts(User[d]) :
         Starts(d, [step |-> "link", payment |-> p, shift |-> s])
  BY DEF LinkRead
<1>2. DeskInv(d, [step |-> "link", payment |-> p, shift |-> s])
  BY OpenOnes DEF DeskInv, Fits, HoldsItsOwn, MissesNone
<1> QED BY <1>1, <1>2, Looking DEF Starts, Goes

LEMMA RefundReadKeeps ==
    ASSUME CashInv, NEW d \in Desks, NEW p \in Payments, RefundRead(d, p) PROVE Kept
<1>1. PICK amount \in 1 .. (Due[p] - Refunded(p)), s \in RefundDrawers(User[d], p) :
         Starts(d, [step |-> "refund", payment |-> p, shift |-> s, amount |-> amount])
  BY DEF RefundRead
<1>2. payment[p].shift \in MaybeShift /\ payment[p].shift \in Shifts \cup {None}
  BY DEF CashInv, Shape, PaymentsInv, PaymentRow
<1>3. s \in MaybeShift /\ FromItsDrawer(p, s)
  BY <1>2, OpenOnes, MoneyAssumption DEF RefundDrawers, FromItsDrawer, MaybeShift, Payments
<1>4. DeskInv(d, [step |-> "refund", payment |-> p, shift |-> s, amount |-> amount])
  BY <1>3 DEF RefundRead, DeskInv, Fits, HoldsItsOwn, MissesNone
<1> QED BY <1>1, <1>4, Looking DEF Starts, Goes

LEMMA CloseFindKeeps ==
    ASSUME CashInv, NEW d \in Desks, NEW count \in Counts, CloseFind(d, count) PROVE Kept
<1>1. PICK s \in OpenShifts(User[d]) :
         Starts(d, [step |-> "close", shift |-> s, count |-> count, toRead |-> Totals,
                    sales |-> {}, refunds |-> {}])
  BY DEF CloseFind
<1> DEFINE r == [step |-> "close", shift |-> s, count |-> count, toRead |-> Totals,
                 sales |-> {}, refunds |-> {}]
<1>2. r \in Totalling
  BY OpenOnes DEF Totalling
<1>3. DeskInv(d, r)
  BY <1>2, OpenOnes DEF DeskInv, Fits, HoldsItsOwn, MissesNone, Totals
<1> HIDE DEF r
<1> QED BY <1>1, <1>3, Looking DEF Starts, Goes, r

LEMMA OverrideReadKeeps ==
    ASSUME CashInv, NEW d \in Desks, NEW s \in Shifts, NEW count \in Counts \cup {None},
           OverrideRead(d, s, count)
    PROVE  Kept
<1>1. DeskInv(d, [step |-> "override", shift |-> s, count |-> count])
  BY DEF DeskInv, Fits, HoldsItsOwn, MissesNone
<1> QED BY <1>1, Looking DEF OverrideRead, Starts, Goes

LEMMA DecideFindKeeps ==
    ASSUME CashInv, NEW d \in Desks, NEW o \in DOMAIN override, NEW approve \in BOOLEAN,
           DecideFind(d, o, approve)
    PROVE  Kept
<1>1. DeskInv(d, [step |-> "decide", override |-> o, approve |-> approve])
  BY DEF DecideFind, Decidable, DeskInv, Fits, HoldsItsOwn, MissesNone
<1> QED BY <1>1, Looking DEF DecideFind, Starts, Goes

LEMMA ReopenReadKeeps ==
    ASSUME CashInv, NEW d \in Desks, NEW s \in Shifts, ReopenRead(d, s) PROVE Kept
<1>1. DeskInv(d, [step |-> "reopen", shift |-> s])
  BY DEF ReopenRead, DeskInv, Fits, HoldsItsOwn, MissesNone
<1> QED BY <1>1, Looking DEF ReopenRead, Starts, Goes

-----------------------------------------------------------------------------
(* Sequences *)

\* A sequence with one element more, or one place written.
LEMMA Longer ==
    ASSUME NEW S, NEW q \in Seq(S), NEW x \in S
    PROVE  /\ Append(q, x) \in Seq(S)
           /\ DOMAIN Append(q, x) = DOMAIN q \cup {Len(q) + 1}
           /\ Len(q) + 1 \notin DOMAIN q
           /\ \A j \in DOMAIN q : Append(q, x)[j] = q[j]
           /\ Append(q, x)[Len(q) + 1] = x
OBVIOUS

LEMMA Written ==
    ASSUME NEW S, NEW q \in Seq(S), NEW i \in DOMAIN q, NEW x \in S
    PROVE  /\ [q EXCEPT ![i] = x] \in Seq(S)
           /\ DOMAIN [q EXCEPT ![i] = x] = DOMAIN q
           /\ \A j \in DOMAIN q : [q EXCEPT ![i] = x][j] = IF j = i THEN x ELSE q[j]
OBVIOUS

LEMMA Wider ==
    ASSUME NEW S, NEW T, S \subseteq T, NEW q \in Seq(S)
    PROVE  q \in Seq(T)
OBVIOUS

LEMMA WiderShifts ==
    ASSUME NEW V, NEW W, NEW q \in Seq(ShiftRows(V))
    PROVE  q \in Seq(ShiftRows(V \cup W))
<1>1. ShiftRows(V) \subseteq ShiftRows(V \cup W)
  BY DEF ShiftRows
<1> QED BY <1>1, Wider

LEMMA WiderRefunds ==
    ASSUME NEW V, NEW W, NEW q \in Seq(RefundRows(V))
    PROVE  q \in Seq(RefundRows(V \cup W))
<1>1. RefundRows(V) \subseteq RefundRows(V \cup W)
  BY DEF RefundRows
<1> QED BY <1>1, Wider

-----------------------------------------------------------------------------
(* Opening a shift *)

LEMMA NumberKeeps ==
    ASSUME CashInv, NEW d \in Desks, NextShiftNumber(d) PROVE Kept
<1>1. DeskInv(d, req[d])
  BY DEF CashInv, DesksInv
<1>2. DeskInv(d, [step |-> "create", tries |-> req[d].tries, number |-> Len(shift) + 1])
  BY <1>1 DEF NextShiftNumber, At, DeskInv, Fits, HoldsItsOwn, MissesNone
<1> QED BY <1>2, Looking DEF NextShiftNumber

LEMMA CreateShiftKeeps ==
    ASSUME CashInv, NEW d \in Desks, CreateShift(d) PROVE Kept
<1>1. User[d] \in Cashiers
  BY DEF CashInv, DesksInv, DeskInv, HoldsItsOwn, CreateShift, At
<1>2. CASE shift' = Append(shift, NewShift(User[d])) /\ Goes(d, Idle)
  <2>1. PICK V : shift \in Seq(ShiftRows(V \cup {None}))
    BY WiderShifts DEF CashInv, Shape
  <2>2. NewShift(User[d]) \in ShiftRows(V \cup {None})
    BY <1>1 DEF NewShift, ShiftRows
  <2>3. /\ shift' \in Seq(ShiftRows(V \cup {None})) /\ Shifts \subseteq Shifts'
        /\ \A s \in Shifts : shift'[s] = shift[s]
    BY <1>2, <2>1, <2>2, Longer DEF Shifts
  <2>4. UNCHANGED <<payment, refund, override>>
    BY DEF CreateShift
  <2>5. Leaves({d}) /\ ShiftsKept
    BY <1>2, <2>3, <2>4, Answered DEF Leaves, ShiftsKept, Collected
  <2>6. Shape' /\ PaymentsInv' /\ RefundsInv' /\ OverridesInv'
    BY <1>2, <2>3, <2>4, Answered
       DEF CashInv, Shape, PaymentsInv, RefundsInv, OverridesInv, Collected, FromItsDrawer
  <2> QED BY <1>2, <2>5, <2>6, Writing
<1>3. CASE UNCHANGED shift /\ Goes(d, IF req[d].tries + 1 = MaxTries THEN Idle
                                     ELSE [step |-> "number", tries |-> req[d].tries + 1])
  <2> DEFINE r == IF req[d].tries + 1 = MaxTries THEN Idle
                  ELSE [step |-> "number", tries |-> req[d].tries + 1]
  <2>1. DeskInv(d, r)
    BY <1>1 DEF DeskInv, Fits, HoldsItsOwn, MissesNone, Idle
  <2> HIDE DEF r
  <2> QED BY <1>3, <2>1, Looking DEF CreateShift, r
<1> QED BY <1>2, <1>3 DEF CreateShift

-----------------------------------------------------------------------------
(* Payments *)

\* A step that changes payments only.
LEMMA PaymentsOnly ==
    ASSUME CashInv, NEW d \in Desks, Goes(d, Idle),
           UNCHANGED <<shift, refund, override>>, payment' \in [Payments -> PaymentRow],
           \A p \in Payments :
              /\ payment'[p].shift \in Shifts \cup {None}
              /\ p \in Cash /\ ~Collected(p)' => payment'[p].shift = None
              /\ Collected(p) => Collected(p)'
              /\ payment[p].shift # None => payment'[p].shift = payment[p].shift
              /\ Collected(p) /\ p \in Cash => payment'[p].shift = payment[p].shift
              /\ Collected(p)' /\ p \in Cash =>
                    \/ /\ Collected(p)
                       /\ payment'[p].status = "PAID" => payment[p].status = "PAID"
                    \/ At(d, "collect") /\ req[d].shift = payment'[p].shift
    PROVE  Kept
<1>1. Leaves({d}) /\ ShiftsKept
  BY Answered DEF Leaves, ShiftsKept, Shifts
<1>2. Shape' /\ PaymentsInv' /\ OverridesInv'
  BY Answered DEF CashInv, Shape, PaymentsInv, OverridesInv, Shifts
<1>3. \A i \in DOMAIN refund : refund[i].payment \in Payments
  <2>1. PICK V : refund \in Seq(RefundRows(V))
    BY DEF CashInv, Shape
  <2>2. \A i \in DOMAIN refund : refund[i] \in RefundRows(V)
    BY <2>1
  <2> QED BY <2>2 DEF RefundRows
<1>4. RefundsInv'
  BY <1>1, <1>3, ChargeStays DEF CashInv, RefundsInv
<1> QED BY <1>1, <1>2, <1>4, Writing

LEMMA CollectWriteKeeps ==
    ASSUME CashInv, NEW d \in Desks, CollectWrite(d) PROVE Kept
<1>1. PICK p \in Cash, s \in Shifts \cup {None} : p = req[d].payment /\ s = req[d].shift
  BY DEF CollectWrite, At, CashInv, DesksInv, DeskInv, HoldsItsOwn
<1>2. CASE Takes(p)
  <2>1. payment \in [Payments -> PaymentRow] /\ p \in Payments
    BY DEF CashInv, Shape, Payments
  <2>2. [status |-> "PAID", shift |-> s] \in PaymentRow
    <3>1. PICK V : shift \in Seq(ShiftRows(V))
      BY DEF CashInv, Shape
    <3>2. s \in MaybeShift
      BY <3>1 DEF MaybeShift, Shifts
    <3> QED BY <3>2 DEF PaymentRow
  <2>3. payment' = [payment EXCEPT ![p] = [status |-> "PAID", shift |-> s]]
    BY <1>1, <1>2 DEF CollectWrite
  <2>4. /\ payment' \in [Payments -> PaymentRow]
        /\ \A q \in Payments : payment'[q] = IF q = p THEN [status |-> "PAID", shift |-> s]
                                             ELSE payment[q]
    BY <2>1, <2>2, <2>3
  <2>5. ~Collected(p) /\ payment[p].shift = None
    BY <1>2, <2>1 DEF Takes, Collected, CashInv, PaymentsInv
  <2> QED BY <1>1, <2>4, <2>5, PaymentsOnly DEF CollectWrite, CashInv, PaymentsInv, Collected
<1>3. CASE ~Takes(p)
  BY <1>1, <1>3, IdleHolds, Looking DEF CollectWrite
<1> QED BY <1>2, <1>3

LEMMA LinkWriteKeeps ==
    ASSUME CashInv, NEW d \in Desks, LinkWrite(d) PROVE Kept
<1>1. PICK p \in Online, s \in Shifts : p = req[d].payment /\ s = req[d].shift
  BY DEF LinkWrite, At, CashInv, DesksInv, DeskInv, HoldsItsOwn
<1>2. CASE Unlinked(p)
  <2>1. payment \in [Payments -> PaymentRow] /\ p \in Payments /\ p \notin Cash
    BY MoneyAssumption DEF CashInv, Shape, Payments
  <2>2. s \in MaybeShift
    <3>1. PICK V : shift \in Seq(ShiftRows(V))
      BY DEF CashInv, Shape
    <3> QED BY <3>1 DEF MaybeShift, Shifts
  <2>3. payment' = [payment EXCEPT ![p].shift = s]
    BY <1>1, <1>2 DEF LinkWrite
  <2>4. /\ payment' \in [Payments -> PaymentRow]
        /\ \A q \in Payments : /\ payment'[q].status = payment[q].status
                               /\ payment'[q].shift = IF q = p THEN s ELSE payment[q].shift
    BY <2>1, <2>2, <2>3 DEF PaymentRow
  <2> QED BY <1>2, <2>1, <2>4, PaymentsOnly
          DEF LinkWrite, CashInv, PaymentsInv, Collected, Unlinked
<1>3. CASE ~Unlinked(p)
  BY <1>1, <1>3, IdleHolds, Looking DEF LinkWrite
<1> QED BY <1>2, <1>3

-----------------------------------------------------------------------------
(* Refunds *)

LEMMA RefundCreateKeeps ==
    ASSUME CashInv, NEW d \in Desks, RefundCreate(d) PROVE Kept
<1>1. PICK r : r = req[d]
  OBVIOUS
<1>2. /\ r.payment \in Payments /\ r.shift \in MaybeShift
      /\ Collected(r.payment) /\ FromItsDrawer(r.payment, r.shift)
  BY <1>1 DEF RefundCreate, At, CashInv, DesksInv, DeskInv, HoldsItsOwn, Fits
<1>3. CASE PendingRefund(r.payment)
  BY <1>1, <1>3, IdleHolds, Looking DEF RefundCreate
<1>4. CASE ~PendingRefund(r.payment)
  <2>1. PICK V : refund \in Seq(RefundRows(V \cup {r.amount}))
    BY WiderRefunds DEF CashInv, Shape
  <2> DEFINE row == [payment |-> r.payment, shift |-> r.shift, amount |-> r.amount,
                     status |-> "PENDING"]
  <2>2. row \in RefundRows(V \cup {r.amount}) /\ row.payment = r.payment /\ row.shift = r.shift
    BY <1>2 DEF RefundRows
  <2>3. refund' = Append(refund, row) /\ UNCHANGED <<shift, payment, override>> /\ Goes(d, Idle)
    BY <1>1, <1>4 DEF RefundCreate
  <2> HIDE DEF row
  <2>4. /\ refund' \in Seq(RefundRows(V \cup {r.amount}))
        /\ \A i \in DOMAIN refund' : refund'[i] = row \/ (i \in DOMAIN refund /\ refund'[i] = refund[i])
    <3>1. PICK S : S = RefundRows(V \cup {r.amount})
      OBVIOUS
    <3>2. refund \in Seq(S) /\ row \in S
      BY <2>1, <2>2, <3>1
    <3>3. /\ refund' \in Seq(S) /\ DOMAIN refund' = DOMAIN refund \cup {Len(refund) + 1}
          /\ \A j \in DOMAIN refund : refund'[j] = refund[j]
          /\ refund'[Len(refund) + 1] = row
      BY <2>3, <3>2, Longer
    <3>4. \A i \in DOMAIN refund' :
             refund'[i] = row \/ (i \in DOMAIN refund /\ refund'[i] = refund[i])
      BY <3>3
    <3> QED BY <3>1, <3>3, <3>4
  <2>5. Leaves({d}) /\ ShiftsKept
    BY <2>3, Answered DEF Leaves, ShiftsKept, Shifts, Collected
  <2>6. Shape' /\ PaymentsInv' /\ OverridesInv'
    BY <2>3, <2>4, Answered DEF CashInv, Shape, PaymentsInv, OverridesInv, Shifts, Collected
  <2>7. RefundsInv'
    BY <1>2, <2>2, <2>3, <2>4 DEF CashInv, RefundsInv, Collected, FromItsDrawer, Shifts
  <2> QED BY <2>3, <2>5, <2>6, <2>7, Writing
<1> QED BY <1>3, <1>4

\* A step of no desk.
LEMMA Passing ==
    ASSUME CashInv, Leaves({}), ShiftsKept, Shape', PaymentsInv', RefundsInv', OverridesInv'
    PROVE  Kept
<1>1. CashInv'
  BY DesksKeep
<1> QED BY <1>1 DEF Kept

\* The place of a refund row whose status becomes st.
LEMMA RefundDecided ==
    ASSUME CashInv, NEW i \in DOMAIN refund, NEW st \in {"APPROVED", "REJECTED"},
           refund' = [refund EXCEPT ![i].status = st]
    PROVE  /\ \E V : refund' \in Seq(RefundRows(V))
           /\ DOMAIN refund' = DOMAIN refund
           /\ \A j \in DOMAIN refund : /\ refund[j].payment \in Payments
                                      /\ refund'[j].payment = refund[j].payment
                                      /\ refund'[j].shift = refund[j].shift
<1>1. PICK V : refund \in Seq(RefundRows(V))
  BY DEF CashInv, Shape
<1>2. \A j \in DOMAIN refund : refund[j] \in RefundRows(V)
  BY <1>1
<1> DEFINE row == [refund[i] EXCEPT !.status = st]
<1>3. row \in RefundRows(V) /\ row.payment = refund[i].payment /\ row.shift = refund[i].shift
  BY <1>2 DEF RefundRows
<1>4. refund' = [refund EXCEPT ![i] = row]
  OBVIOUS
<1>5. \A j \in DOMAIN refund : refund[j].payment \in Payments
  BY <1>2 DEF RefundRows
<1> HIDE DEF row
<1>6. PICK S : S = RefundRows(V)
  OBVIOUS
<1>7. /\ refund' \in Seq(S) /\ DOMAIN refund' = DOMAIN refund
      /\ \A j \in DOMAIN refund : refund'[j] = IF j = i THEN row ELSE refund[j]
  BY <1>1, <1>3, <1>4, <1>6, Written
<1> QED BY <1>3, <1>5, <1>6, <1>7

LEMMA ApproveRefundKeeps ==
    ASSUME CashInv, NEW i \in DOMAIN refund, ApproveRefund(i) PROVE Kept
<1>1. PICK p \in Payments : p = refund[i].payment
  <2>1. PICK V : refund \in Seq(RefundRows(V))
    BY DEF CashInv, Shape
  <2>2. refund[i] \in RefundRows(V)
    BY <2>1
  <2> QED BY <2>2 DEF RefundRows
<1>2. refund' = [refund EXCEPT ![i].status = "APPROVED"] /\ UNCHANGED <<shift, override, req>>
  BY DEF ApproveRefund
<1>3. Collected(p) /\ payment \in [Payments -> PaymentRow]
  BY <1>1 DEF CashInv, RefundsInv, Shape
<1>4. /\ payment' \in [Payments -> PaymentRow]
      /\ \A q \in Payments : /\ payment'[q].shift = payment[q].shift
                             /\ \/ payment'[q].status = payment[q].status
                                \/ Collected(q) /\ payment'[q].status = "REFUNDED"
  <2>1. CASE payment' = payment
    BY <1>3, <2>1
  <2>2. CASE payment' = [payment EXCEPT ![p].status = "REFUNDED"]
    BY <1>3, <2>2 DEF PaymentRow
  <2> QED BY <1>1, <2>1, <2>2 DEF ApproveRefund
<1>5. Leaves({}) /\ ShiftsKept
  BY <1>2, <1>4 DEF Leaves, ShiftsKept, Shifts, Collected
<1>6. Shape' /\ PaymentsInv' /\ OverridesInv'
  BY <1>2, <1>4, RefundDecided
     DEF CashInv, Shape, PaymentsInv, OverridesInv, Shifts, Collected
<1>7. RefundsInv'
  BY <1>2, <1>5, RefundDecided, ChargeStays DEF CashInv, RefundsInv
<1> QED BY <1>5, <1>6, <1>7, Passing

LEMMA RejectRefundKeeps ==
    ASSUME CashInv, NEW i \in DOMAIN refund, RejectRefund(i) PROVE Kept
<1>1. /\ refund' = [refund EXCEPT ![i].status = "REJECTED"]
      /\ UNCHANGED <<shift, payment, override, req>>
  BY DEF RejectRefund
<1>2. Leaves({}) /\ ShiftsKept
  BY <1>1 DEF Leaves, ShiftsKept, Shifts, Collected
<1>3. Shape' /\ PaymentsInv' /\ OverridesInv'
  BY <1>1, RefundDecided DEF CashInv, Shape, PaymentsInv, OverridesInv, Shifts, Collected
<1>4. RefundsInv'
  BY <1>1, <1>2, RefundDecided, ChargeStays DEF CashInv, RefundsInv
<1> QED BY <1>2, <1>3, <1>4, Passing

LEMMA OnlinePaidKeeps ==
    ASSUME CashInv, NEW p \in Online, OnlinePaid(p) PROVE Kept
<1>1. p \in Payments /\ p \notin Cash /\ payment \in [Payments -> PaymentRow]
  BY MoneyAssumption DEF CashInv, Shape, Payments
<1>2. /\ payment' = [payment EXCEPT ![p].status = "PAID"]
      /\ UNCHANGED <<shift, refund, override, req>> /\ ~Collected(p)
  BY DEF OnlinePaid, Collected
<1>3. /\ payment' \in [Payments -> PaymentRow]
      /\ \A q \in Payments : /\ payment'[q].shift = payment[q].shift
                             /\ payment'[q].status = IF q = p THEN "PAID" ELSE payment[q].status
  BY <1>1, <1>2 DEF PaymentRow
<1>4. Leaves({}) /\ ShiftsKept
  BY <1>1, <1>2, <1>3 DEF Leaves, ShiftsKept, Shifts, Collected
<1>5. Shape' /\ PaymentsInv' /\ OverridesInv'
  BY <1>1, <1>2, <1>3 DEF CashInv, Shape, PaymentsInv, OverridesInv, Shifts, Collected
<1>6. RefundsInv'
  <2>1. PICK V : refund \in Seq(RefundRows(V))
    BY DEF CashInv, Shape
  <2>2. \A i \in DOMAIN refund : refund[i] \in RefundRows(V)
    BY <2>1
  <2>3. \A i \in DOMAIN refund : refund[i].payment \in Payments
    BY <2>2 DEF RefundRows
  <2> QED BY <1>2, <1>4, <2>3, ChargeStays DEF CashInv, RefundsInv
<1> QED BY <1>4, <1>5, <1>6, Passing

-----------------------------------------------------------------------------
(* Closing *)

LEMMA TotallingRow ==
    ASSUME CashInv, NEW d \in Desks, req[d].step \in {"close", "reconcile"}
    PROVE  req[d] \in Totalling /\ DeskInv(d, req[d])
BY DEF CashInv, DesksInv, DeskInv, Fits

LEMMA ReadSalesKeeps ==
    ASSUME CashInv, NEW d \in Desks, ReadSales(d) PROVE Kept
<1> DEFINE q == req[d]
           r == [q EXCEPT !.sales = SalesOf(q.shift), !.toRead = @ \ {"sales"}]
<1>1. q \in Totalling /\ DeskInv(d, q)
  BY TotallingRow DEF ReadSales
<1>2. SalesOf(q.shift) \in SUBSET Payments
  BY DEF SalesOf, CollectedIn, Payments
<1>3. /\ r \in Totalling /\ r.step = q.step /\ r.shift = q.shift
      /\ r.sales = SalesOf(q.shift)
      /\ q.step = "reconcile" => r.override = q.override
  BY <1>1, <1>2 DEF Totalling
<1>4. r.step \in {"close", "reconcile"}
  BY <1>3 DEF ReadSales
<1> HIDE DEF r
<1>5. DeskInv(d, r)
  BY <1>1, <1>3, <1>4 DEF DeskInv, Fits, HoldsItsOwn, MissesNone
<1> QED BY <1>5, Looking DEF ReadSales, r

LEMMA ReadRefundsKeeps ==
    ASSUME CashInv, NEW d \in Desks, ReadRefunds(d) PROVE Kept
<1> DEFINE q == req[d]
           r == [q EXCEPT !.refunds = RefundsOf(q.shift), !.toRead = @ \ {"refunds"}]
<1>1. q \in Totalling /\ DeskInv(d, q)
  BY TotallingRow DEF ReadRefunds
<1>2. RefundsOf(q.shift) \in SUBSET Nat
  <2>1. PICK V : refund \in Seq(RefundRows(V))
    BY DEF CashInv, Shape
  <2> QED BY <2>1 DEF RefundsOf
<1>3. /\ r \in Totalling /\ r.step = q.step /\ r.shift = q.shift
      /\ r.sales = q.sales
      /\ q.step = "reconcile" => r.override = q.override
      /\ "sales" \notin r.toRead => "sales" \notin q.toRead
  BY <1>1, <1>2 DEF Totalling
<1>4. r.step \in {"close", "reconcile"}
  BY <1>3 DEF ReadRefunds
<1> HIDE DEF r
<1>5. DeskInv(d, r)
  BY <1>1, <1>3, <1>4 DEF DeskInv, Fits, HoldsItsOwn, MissesNone
<1> QED BY <1>5, Looking DEF ReadRefunds, r

\* The place of a shift row that is written.
LEMMA ShiftWritten ==
    ASSUME NEW V, shift \in Seq(ShiftRows(V)), NEW s \in Shifts, NEW row \in ShiftRows(V),
           shift' = [shift EXCEPT ![s] = row]
    PROVE  /\ shift' \in Seq(ShiftRows(V)) /\ Shifts' = Shifts
           /\ \A t \in Shifts : shift'[t] = IF t = s THEN row ELSE shift[t]
<1>1. PICK S : S = ShiftRows(V)
  OBVIOUS
<1>2. shift \in Seq(S) /\ row \in S /\ s \in DOMAIN shift
  BY <1>1 DEF Shifts
<1>3. /\ shift' \in Seq(S) /\ DOMAIN shift' = DOMAIN shift
      /\ \A t \in DOMAIN shift : shift'[t] = IF t = s THEN row ELSE shift[t]
  BY <1>2, Written
<1> QED BY <1>1, <1>3 DEF Shifts

\* A step that writes one shift row and the overrides.
LEMMA ShiftOnly ==
    ASSUME CashInv, NEW d \in Desks, Goes(d, Idle), UNCHANGED <<payment, refund>>,
           \E V : shift' \in Seq(ShiftRows(V)),
           Shifts' = Shifts, ShiftsKept,
           \A s \in Shifts :
              /\ shift'[s].user = shift[s].user
              /\ shift[s].status = "OPEN" /\ shift'[s].status # "OPEN" =>
                    At(d, "close") /\ req[d].shift = s
              /\ shift[s].status = "CLOSED" /\ shift'[s].status # "CLOSED" =>
                    At(d, "reopen"),
           override' \in Seq(OverrideRow), DOMAIN override' = DOMAIN override,
           \A o \in DOMAIN override :
              /\ override'[o].shift = override[o].shift
              /\ override'[o] # override[o] => At(d, "reconcile") /\ req[d].override = o
    PROVE  Kept
<1>1. Leaves({d})
  BY Answered DEF Leaves, Collected
<1>2. Shape' /\ PaymentsInv' /\ RefundsInv' /\ OverridesInv'
  BY Answered
     DEF CashInv, Shape, PaymentsInv, RefundsInv, OverridesInv, Collected, FromItsDrawer
<1> QED BY <1>1, <1>2, Writing

LEMMA CloseWriteKeeps ==
    ASSUME CashInv, NEW d \in Desks, CloseWrite(d) PROVE Kept
<1>1. PICK s \in Shifts : /\ s = req[d].shift /\ shift[s].user = User[d]
                          /\ User[d] \in OnTheirOwn => shift[s].status = "OPEN"
  <2>1. req[d].step = "close" /\ req[d] \in Totalling
    BY TotallingRow DEF CloseWrite, At
  <2>2. req[d].shift # None
    BY <2>1, BoundsAssumption DEF Totalling
  <2> QED BY <2>1, <2>2 DEF CashInv, DesksInv, DeskInv, HoldsItsOwn
<1> DEFINE expected == Expected(req[d].sales, req[d].refunds)
           row == [status |-> "CLOSED", user |-> shift[s].user, closing |-> req[d].count,
                   expected |-> expected, difference |-> req[d].count - expected]
           W == {req[d].count, expected, req[d].count - expected}
<1>2. PICK V : shift \in Seq(ShiftRows(V \cup W))
  BY WiderShifts DEF CashInv, Shape
<1>3. row \in ShiftRows(V \cup W) /\ row.user = shift[s].user /\ row.status = "CLOSED"
  <2>1. shift[s].user \in Cashiers
    <3>1. shift[s] \in ShiftRows(V \cup W)
      BY <1>2 DEF Shifts
    <3> QED BY <3>1 DEF ShiftRows
  <2> QED BY <2>1 DEF ShiftRows
<1>4. shift' = [shift EXCEPT ![s] = row]
  BY <1>1 DEF CloseWrite
<1>5. UNCHANGED <<payment, refund, override>> /\ Goes(d, Idle) /\ At(d, "close")
  BY DEF CloseWrite
<1> HIDE DEF row, W
<1>6. /\ shift' \in Seq(ShiftRows(V \cup W)) /\ Shifts' = Shifts
      /\ \A t \in Shifts : shift'[t] = IF t = s THEN row ELSE shift[t]
  <2>1. PICK U : U = V \cup W
    OBVIOUS
  <2>2. shift \in Seq(ShiftRows(U)) /\ row \in ShiftRows(U)
    BY <1>2, <1>3, <2>1
  <2>3. /\ shift' \in Seq(ShiftRows(U)) /\ Shifts' = Shifts
        /\ \A t \in Shifts : shift'[t] = IF t = s THEN row ELSE shift[t]
    BY <1>4, <2>2, ShiftWritten
  <2> QED BY <2>1, <2>3
<1>7. ShiftsKept
  <2>1. shift'[s] = row /\ \A t \in Shifts \ {s} : shift'[t] = shift[t]
    BY <1>6
  <2>2. /\ row.status = "CLOSED" /\ row.user = shift[s].user
        /\ row.closing = req[d].count /\ row.expected = expected
        /\ row.difference = req[d].count - expected
    BY DEF row
  <2> HIDE DEF expected
  <2>3. shift'[s].difference = shift'[s].closing - shift'[s].expected
    BY <2>1, <2>2
  <2>4. CountedAndClosed(s)
    BY <1>1, <2>1, <2>2, <2>3 DEF CountedAndClosed
  <2> QED BY <2>1, <2>4 DEF ShiftsKept
<1> QED BY <1>1, <1>3, <1>5, <1>6, <1>7, ShiftOnly DEF CashInv, Shape

-----------------------------------------------------------------------------
(* Overrides and reopening *)

LEMMA OverrideCreateKeeps ==
    ASSUME CashInv, NEW d \in Desks, OverrideCreate(d) PROVE Kept
<1> DEFINE row == [shift |-> req[d].shift, count |-> req[d].count, status |-> "PENDING"]
<1>1. /\ req[d].shift \in Shifts /\ req[d].shift \in Nat
      /\ req[d].count \in Counts \cup {None}
  <2>1. req[d].shift \in Shifts /\ req[d].count \in Counts \cup {None}
    BY DEF OverrideCreate, At, CashInv, DesksInv, DeskInv, HoldsItsOwn, Fits
  <2>2. PICK V : shift \in Seq(ShiftRows(V))
    BY DEF CashInv, Shape
  <2> QED BY <2>1, <2>2 DEF Shifts
<1>2. row \in OverrideRow /\ row.shift \in Shifts
  BY <1>1 DEF OverrideRow
<1>3. /\ override' = Append(override, row) /\ Goes(d, Idle)
      /\ UNCHANGED <<shift, payment, refund>>
  BY DEF OverrideCreate
<1>4. override \in Seq(OverrideRow)
  BY DEF CashInv, Shape
<1> HIDE DEF row
<1>5. /\ override' \in Seq(OverrideRow)
      /\ DOMAIN override' = DOMAIN override \cup {Len(override) + 1}
      /\ \A o \in DOMAIN override : override'[o] = override[o]
      /\ override'[Len(override) + 1] = row
  BY <1>2, <1>3, <1>4, Longer
<1>6. Leaves({d}) /\ ShiftsKept
  BY <1>3, <1>5, Answered DEF Leaves, ShiftsKept, Shifts, Collected
<1>7. Shape' /\ PaymentsInv' /\ RefundsInv' /\ OverridesInv'
  BY <1>2, <1>3, <1>5, Answered
     DEF CashInv, Shape, PaymentsInv, RefundsInv, OverridesInv, Shifts, Collected, FromItsDrawer
<1> QED BY <1>3, <1>6, <1>7, Writing

LEMMA DecideLockKeeps ==
    ASSUME CashInv, NEW d \in Desks, DecideLock(d) PROVE Kept
<1> DEFINE q == req[d]
           r == [step |-> "reconcile", shift |-> override[q.override].shift,
                 override |-> q.override, approve |-> q.approve,
                 toRead |-> IF Reconciles(q) THEN Totals ELSE {},
                 sales |-> {}, refunds |-> {}]
<1>1. q.step = "decide" /\ DeskInv(d, q)
  BY DEF DecideLock, At, CashInv, DesksInv
<1>2. q.override \in DOMAIN override /\ override \in Seq(OverrideRow)
  BY <1>1 DEF DeskInv, HoldsItsOwn, CashInv, Shape
<1>3. q.override \in Nat /\ override[q.override].shift \in Nat
  <2>1. override[q.override] \in OverrideRow
    BY <1>2
  <2> QED BY <1>2, <2>1 DEF OverrideRow
<1>4. CASE q.approve \in BOOLEAN
  <2>1. r \in Totalling
    BY <1>3, <1>4 DEF Totalling
  <2>2. DeskInv(d, r)
    BY <1>1, <2>1 DEF DeskInv, Fits, HoldsItsOwn, MissesNone
  <2> HIDE DEF r
  <2> QED BY <2>2, Looking DEF DecideLock, r
<1>5. q.approve \in BOOLEAN
  BY <1>1 DEF DeskInv, Fits
<1> QED BY <1>4, <1>5

LEMMA DecideWriteKeeps ==
    ASSUME CashInv, NEW d \in Desks, DecideWrite(d) PROVE Kept
<1>1. PICK r \in Totalling : r = req[d] /\ r.step = "reconcile" /\ DeskInv(d, r)
  BY TotallingRow DEF DecideWrite, At
<1>2. /\ r.override \in DOMAIN override /\ r.shift = override[r.override].shift
      /\ r.shift \in Shifts
  BY <1>1 DEF DeskInv, HoldsItsOwn, CashInv, OverridesInv
<1> DEFINE st == IF r.approve THEN "APPROVED" ELSE "REJECTED"
           row == [override[r.override] EXCEPT !.status = st]
<1>3. override \in Seq(OverrideRow) /\ override[r.override] \in OverrideRow
  BY <1>2 DEF CashInv, Shape
<1>4. row \in OverrideRow /\ row.shift = override[r.override].shift /\ row.status = st
  BY <1>3 DEF OverrideRow
<1>5. override' = [override EXCEPT ![r.override] = row]
  BY <1>1 DEF DecideWrite
<1>6. UNCHANGED <<payment, refund>> /\ Goes(d, Idle)
  BY DEF DecideWrite
<1> HIDE DEF row
<1>7. /\ override' \in Seq(OverrideRow) /\ DOMAIN override' = DOMAIN override
      /\ \A o \in DOMAIN override :
            override'[o] = IF o = r.override THEN row ELSE override[o]
  BY <1>2, <1>3, <1>4, <1>5, Written
<1>8. CASE Reconciles(r)
  <2> DEFINE count == override[r.override].count
             difference == count - Expected(r.sales, r.refunds)
             new == [shift[r.shift] EXCEPT !.closing = count, !.difference = difference]
  <2>1. PICK V : shift \in Seq(ShiftRows(V \cup {count, difference}))
    BY WiderShifts DEF CashInv, Shape
  <2>2. shift[r.shift] \in ShiftRows(V \cup {count, difference})
    BY <1>2, <2>1 DEF Shifts
  <2>3. /\ new \in ShiftRows(V \cup {count, difference})
        /\ new.user = shift[r.shift].user /\ new.status = shift[r.shift].status
    BY <2>2 DEF ShiftRows
  <2>4. shift' = [shift EXCEPT ![r.shift] = new]
    BY <1>1, <1>8 DEF DecideWrite
  <2> HIDE DEF new, count, difference
  <2>5. /\ shift' \in Seq(ShiftRows(V \cup {count, difference})) /\ Shifts' = Shifts
        /\ \A t \in Shifts : shift'[t] = IF t = r.shift THEN new ELSE shift[t]
    <3>1. PICK U, s, x : U = V \cup {count, difference} /\ s = r.shift /\ x = new
      OBVIOUS
    <3>2. /\ shift \in Seq(ShiftRows(U)) /\ s \in Shifts /\ x \in ShiftRows(U)
          /\ shift' = [shift EXCEPT ![s] = x]
      BY <1>2, <2>1, <2>3, <2>4, <3>1
    <3>3. /\ shift' \in Seq(ShiftRows(U)) /\ Shifts' = Shifts
          /\ \A t \in Shifts : shift'[t] = IF t = s THEN x ELSE shift[t]
      BY <3>2, ShiftWritten
    <3> QED BY <3>1, <3>3
  <2>6. st = "APPROVED"
    BY <1>8 DEF Reconciles
  <2>7. Corrected(r.shift)
    <3>1. override'[r.override].status = "APPROVED"
      BY <1>2, <1>4, <1>7, <2>6
    <3>2. OneDesk(Admin) => override[r.override].status = "PENDING"
      BY <1>1 DEF DeskInv, HoldsItsOwn
    <3>3. shift'[r.shift] = [shift[r.shift] EXCEPT !.closing = override[r.override].count,
                                                  !.difference = shift'[r.shift].difference]
      <4>1. shift'[r.shift] = new /\ new.difference = difference
        BY <1>2, <2>2, <2>5 DEF new, ShiftRows
      <4> QED BY <4>1 DEF new, count
    <3> QED BY <1>2, <3>1, <3>2, <3>3 DEF Corrected
  <2>8. ShiftsKept
    BY <1>2, <2>5, <2>7 DEF ShiftsKept
  <2> QED BY <1>1, <1>2, <1>4, <1>6, <1>7, <2>3, <2>5, <2>8, ShiftOnly DEF At
<1>9. CASE ~Reconciles(r)
  <2>1. shift' = shift
    BY <1>1, <1>9 DEF DecideWrite
  <2>2. ShiftsKept /\ Shifts' = Shifts /\ \E V : shift' \in Seq(ShiftRows(V))
    BY <2>1 DEF ShiftsKept, Shifts, CashInv, Shape
  <2> QED BY <1>1, <1>2, <1>4, <1>6, <1>7, <2>1, <2>2, ShiftOnly DEF At
<1> QED BY <1>8, <1>9

LEMMA ReopenWriteKeeps ==
    ASSUME CashInv, NEW d \in Desks, ReopenWrite(d) PROVE Kept
<1>1. PICK s \in Shifts : s = req[d].shift
  BY DEF ReopenWrite, At, CashInv, DesksInv, DeskInv, HoldsItsOwn
<1>2. PICK V : shift \in Seq(ShiftRows(V \cup {None}))
  BY WiderShifts DEF CashInv, Shape
<1>3. shift[s] \in ShiftRows(V \cup {None})
  BY <1>2 DEF Shifts
<1>4. /\ NewShift(shift[s].user) \in ShiftRows(V \cup {None})
      /\ NewShift(shift[s].user).user = shift[s].user
      /\ NewShift(shift[s].user).status = "OPEN"
  BY <1>3 DEF NewShift, ShiftRows
<1>5. shift' = [shift EXCEPT ![s] = NewShift(shift[s].user)]
  BY <1>1 DEF ReopenWrite
<1>6. UNCHANGED <<payment, refund, override>> /\ Goes(d, Idle)
  BY DEF ReopenWrite
<1>7. /\ shift' \in Seq(ShiftRows(V \cup {None})) /\ Shifts' = Shifts
      /\ \A t \in Shifts : shift'[t] = IF t = s THEN NewShift(shift[s].user) ELSE shift[t]
  <2>1. PICK row : row = NewShift(shift[s].user)
    OBVIOUS
  <2>2. row \in ShiftRows(V \cup {None}) /\ shift' = [shift EXCEPT ![s] = row]
    BY <1>4, <1>5, <2>1
  <2> QED BY <1>2, <2>1, <2>2, ShiftWritten
<1>8. ShiftsKept
  <2>1. Reopened(s)
    BY <1>1, <1>7 DEF Reopened, ReopenWrite, At, CashInv, DesksInv, DeskInv, HoldsItsOwn
  <2> QED BY <1>7, <2>1 DEF ShiftsKept
<1> QED BY <1>4, <1>6, <1>7, <1>8, ShiftOnly DEF ReopenWrite, CashInv, Shape

-----------------------------------------------------------------------------
(* Every step *)

LEMMA BeginKeeps ==
    ASSUME CashInv, NEW d \in Desks, Begin(d) PROVE Kept
BY OpenCheckKeeps, CollectReadKeeps, LinkReadKeeps, RefundReadKeeps, CloseFindKeeps,
   OverrideReadKeeps, DecideFindKeeps, ReopenReadKeeps DEF Begin

LEMMA ContinueKeeps ==
    ASSUME CashInv, NEW d \in Desks, Continue(d) PROVE Kept
BY NumberKeeps, CreateShiftKeeps, CollectWriteKeeps, LinkWriteKeeps, RefundCreateKeeps,
   ReadSalesKeeps, ReadRefundsKeeps, CloseWriteKeeps, OverrideCreateKeeps, DecideLockKeeps,
   DecideWriteKeeps, ReopenWriteKeeps DEF Continue

LEMMA ElsewhereKeeps ==
    ASSUME CashInv, Elsewhere PROVE Kept
BY OnlinePaidKeeps, ApproveRefundKeeps, RejectRefundKeeps DEF Elsewhere

LEMMA StutterKeeps ==
    ASSUME CashInv, UNCHANGED vars PROVE Kept
<1>1. UNCHANGED <<shift, payment, refund, override, req>>
  BY DEF vars
<1>2. Leaves({}) /\ ShiftsKept
  BY <1>1 DEF Leaves, ShiftsKept, Shifts, Collected
<1>3. Shape' /\ PaymentsInv' /\ RefundsInv' /\ OverridesInv'
  BY <1>1 DEF CashInv, Shape, PaymentsInv, RefundsInv, OverridesInv, Shifts, Collected,
              FromItsDrawer
<1> QED BY <1>2, <1>3, Passing

LEMMA StepKeeps ==
    ASSUME CashInv, [Next]_vars PROVE Kept
BY BeginKeeps, ContinueKeeps, ElsewhereKeeps, StutterKeeps DEF Next

LEMMA Start == Init => CashInv
<1> SUFFICES ASSUME Init PROVE CashInv
  OBVIOUS
<1>1. /\ shift = <<>> /\ refund = <<>> /\ override = <<>> /\ DOMAIN req = Desks
      /\ \A d \in Desks : req[d] = Idle
  BY DEF Init
<1>2. /\ payment \in [Payments -> PaymentRow]
      /\ \A p \in Payments : payment[p].shift = None
      /\ \A p \in Cash : payment[p].status = "UNPAID"
  BY DEF Init, PaymentRow, MaybeShift, Payments
<1>3. Shape
  BY <1>1, <1>2 DEF Shape
<1>4. PaymentsInv /\ RefundsInv /\ OverridesInv
  BY <1>1, <1>2 DEF PaymentsInv, RefundsInv, OverridesInv
<1>5. DesksInv
  BY <1>1, IdleHolds DEF DesksInv
<1> QED BY <1>3, <1>4, <1>5 DEF CashInv

-----------------------------------------------------------------------------
(* What is kept *)

\* The inductive invariant: whatever a desk goes on with is still what it looked
\* up (the handlers of shift.service.ts, refunds and collections).
THEOREM CashKept == Spec => []CashInv
<1>1. CashInv /\ [Next]_vars => CashInv'
  BY StepKeeps DEF Kept
<1> QED BY <1>1, Start, PTL DEF Spec

\* Every desk acts on its own open shift, its own kind of payment, the drawer that
\* took the cash and a request nobody else decided.
THEOREM EveryDeskHoldsItsOwn == Spec => []DesksHoldTheirOwn
<1>1. CashInv => DesksHoldTheirOwn
  BY DEF CashInv, DesksInv, DeskInv, HoldsItsOwn, DesksHoldTheirOwn
<1> QED BY <1>1, CashKept, PTL

\* A refund is charged to the drawer that took the cash, whatever was opened,
\* closed or reopened since (resolveRefundShift).
THEOREM RefundedFromItsDrawer == Spec => []RefundLeavesItsDrawer
<1>1. CashInv => RefundLeavesItsDrawer
  BY DEF CashInv, RefundsInv, RefundLeavesItsDrawer
<1> QED BY <1>1, CashKept, PTL

\* A cashier at one desk closes an open shift of their own with all of its sales
\* (closeShift, which reads before it writes).
THEOREM CountMissesNothing == Spec => []CloseMissesNoCash
<1>1. ASSUME CashInv, NEW d \in Desks, At(d, "close"), User[d] \in OnTheirOwn
      PROVE  LET s == req[d].shift
             IN /\ shift[s].status = "OPEN" /\ shift[s].user = User[d]
                /\ "sales" \notin req[d].toRead => SalesOf(s) \subseteq req[d].sales
  <2>1. req[d] \in Totalling /\ DeskInv(d, req[d])
    BY <1>1, TotallingRow DEF At
  <2>2. req[d].shift # None
    BY <1>1, <2>1, BoundsAssumption DEF Totalling, At
  <2> QED BY <1>1, <2>1, <2>2 DEF DeskInv, HoldsItsOwn, MissesNone, At
<1>2. CashInv => CloseMissesNoCash
  BY <1>1 DEF CloseMissesNoCash
<1> QED BY <1>2, CashKept, PTL

\* What was collected or linked stays where it was put (the guarded updates of
\* markCashierPaymentPaid and linkPaymentToOpenShift).
THEOREM CollectedStays == Spec => MoneyStaysInItsDrawer
<1>1. CashInv /\ [Next]_vars =>
        [\A p \in Payments :
            /\ payment[p].shift # None => payment'[p].shift = payment[p].shift
            /\ Collected(p) /\ p \in Cash => payment'[p].shift = payment[p].shift]_vars
  BY StepKeeps DEF Kept, Leaves
<1> QED BY <1>1, CashKept, PTL DEF Spec, MoneyStaysInItsDrawer

\* A closed drawer of a cashier at one desk takes no more cash.
THEOREM ClosedIsClosed == Spec => ClosedDrawerTakesNoCash
<1>1. ASSUME CashInv, [Next]_vars, NEW s \in Shifts,
             shift[s].user \in OnTheirOwn, shift[s].status = "CLOSED"
      PROVE  CollectedIn(s)' = CollectedIn(s)
  <2>1. PICK D \in SUBSET Desks : Leaves(D)
    BY <1>1, StepKeeps DEF Kept
  <2>2. s # None
    <3>1. PICK V : shift \in Seq(ShiftRows(V))
      BY <1>1 DEF CashInv, Shape
    <3>2. s \in Nat
      BY <3>1 DEF Shifts
    <3> QED BY <3>2, BoundsAssumption
  <2>3. ASSUME NEW d \in D, At(d, "collect"), req[d].shift = s
        PROVE  FALSE
    BY <1>1, <2>2, <2>3 DEF CashInv, DesksInv, DeskInv, HoldsItsOwn, At
  <2>4. ASSUME NEW p \in Cash
        PROVE  Collected(p)' /\ payment'[p].shift = s <=> Collected(p) /\ payment[p].shift = s
    BY <2>1, <2>3 DEF Leaves, Payments
  <2> QED BY <2>4 DEF CollectedIn
<1>2. CashInv /\ [Next]_vars =>
        [\A s \in Shifts : shift[s].user \in OnTheirOwn /\ shift[s].status = "CLOSED" =>
            CollectedIn(s)' = CollectedIn(s)]_vars
  BY <1>1
<1> QED BY <1>2, CashKept, PTL DEF Spec, ClosedDrawerTakesNoCash

\* A shift is counted and closed, corrected by the approval of an override, or
\* reopened, and never changes in another way (closeShift, decideOverride,
\* reopenShift).
THEOREM ShiftChangesAccounted == Spec => EveryShiftChangeHasACause
<1>1. CashInv /\ [Next]_vars =>
        [\A s \in Shifts :
           shift'[s] # shift[s] => Reopened(s) \/ CountedAndClosed(s) \/ Corrected(s)]_vars
  BY StepKeeps DEF Kept, ShiftsKept
<1> QED BY <1>1, CashKept, PTL DEF Spec, EveryShiftChangeHasACause

-----------------------------------------------------------------------------
(***************************************************************************)
(* The figures of the drawers: what computeShiftTotals expects in a drawer   *)
(* is what is in it, less every cash payment that was refunded in full.      *)
(*                                                                         *)
(* What is in a drawer is what was collected into it less what was refunded  *)
(* from it (Figures).  Each step adds one member to one of these two sets or *)
(* leaves both alone; the rest is what a sum over a finite set does (Sums).  *)
(***************************************************************************)
-----------------------------------------------------------------------------
(* Sums of payments and of refunds *)

AmountsOf(rows) == [i \in DOMAIN rows |-> rows[i].amount]

LEMMA PaymentsAdd ==
    ASSUME NEW S \in SUBSET Payments
    PROVE  /\ IsFiniteSet(S) /\ Numbers(Due, S) /\ SumOf(Due, S) \in Int
           /\ MapThenSumSet(LAMBDA p : Due[p], S) = SumOf(Due, S)
<1>1. IsFiniteSet(Payments)
  BY MoneyAssumption, FS_Union DEF Payments
<1>2. IsFiniteSet(S)
  BY <1>1, FS_Subset
<1>3. Numbers(Due, S)
  BY MoneyAssumption DEF Numbers
<1> QED BY <1>2, <1>3, SumIsInt, FoldOfFunction DEF MapThenSumSet, MapThenFoldSet

\* Only the amounts of the rows are added.
LEMMA RowsAdd ==
    ASSUME NEW S, NEW f, NEW v, \A x \in S : v[x] = f[x].amount,
           IsFiniteSet(S), Numbers(v, S)
    PROVE  MapThenSumSet(LAMBDA x : f[x].amount, S) = SumOf(v, S)
<1> DEFINE A(g) == g = [s \in SUBSET S |->
                IF s = {} THEN 0
                ELSE f[CHOOSE x \in s : TRUE].amount + g[s \ {CHOOSE x \in s : TRUE}]]
           B(g) == g = [s \in SUBSET S |->
                IF s = {} THEN 0
                ELSE v[CHOOSE x \in s : TRUE] + g[s \ {CHOOSE x \in s : TRUE}]]
<1>1. \A s \in SUBSET S : s # {} => (CHOOSE x \in s : TRUE) \in S
  OBVIOUS
<1>2. \A g : A(g) <=> B(g)
  BY <1>1
<1> HIDE DEF A, B
<1>3. (CHOOSE g : A(g)) = (CHOOSE g : B(g))
  BY <1>2, Zenon
<1>4. (CHOOSE g : B(g))[S] = SumOf(v, S)
  BY FoldOfFunction DEF B
<1>5. (CHOOSE g : A(g))[S] = SumOf(v, S)
  BY <1>3, <1>4
<1> QED BY <1>5 DEF A, MapThenSumSet, MapThenFoldSet

LEMMA RefundsAdd ==
    ASSUME NEW rows \in Seq(RefundRow), NEW S \in SUBSET DOMAIN rows
    PROVE  /\ IsFiniteSet(S) /\ Numbers(AmountsOf(rows), S) /\ SumOf(AmountsOf(rows), S) \in Int
           /\ MapThenSumSet(LAMBDA i : rows[i].amount, S) = SumOf(AmountsOf(rows), S)
<1>1. IsFiniteSet(S)
  <2>1. DOMAIN rows = 1 .. Len(rows) /\ Len(rows) \in Int
    OBVIOUS
  <2>2. IsFiniteSet(DOMAIN rows)
    BY <2>1, FS_Interval
  <2> QED BY <2>2, FS_Subset
<1>2. \A i \in S : AmountsOf(rows)[i] = rows[i].amount /\ rows[i].amount \in Nat
  <2>1. \A i \in DOMAIN rows : rows[i] \in RefundRow
    OBVIOUS
  <2>2. \A i \in S : rows[i].amount \in Nat
    BY <2>1 DEF RefundRow
  <2> QED BY <2>2 DEF AmountsOf
<1>3. Numbers(AmountsOf(rows), S)
  BY <1>2 DEF Numbers
<1>4. SumOf(AmountsOf(rows), S) \in Int
  BY <1>1, <1>3, SumIsInt
<1>5. PICK v : v = AmountsOf(rows)
  OBVIOUS
<1>6. MapThenSumSet(LAMBDA i : rows[i].amount, S) = SumOf(v, S)
  BY <1>1, <1>2, <1>3, <1>5, RowsAdd
<1> QED BY <1>1, <1>3, <1>4, <1>5, <1>6

LEMMA ExpectedIs ==
    ASSUME refund \in Seq(RefundRow), NEW S \in SUBSET Payments, NEW R \in SUBSET DOMAIN refund
    PROVE  /\ Expected(S, R) \in Int
           /\ Expected(S, R) = Opening + SumOf(Due, S) - SumOf(AmountsOf(refund), R)
<1>1. /\ SumOf(Due, S) \in Int /\ SumOf(AmountsOf(refund), R) \in Int
      /\ MapThenSumSet(LAMBDA p : Due[p], S) = SumOf(Due, S)
      /\ MapThenSumSet(LAMBDA i : refund[i].amount, R) = SumOf(AmountsOf(refund), R)
  BY PaymentsAdd, RefundsAdd
<1>2. Expected(S, R) = Opening + SumOf(Due, S) - SumOf(AmountsOf(refund), R)
  BY <1>1 DEF Expected, MapThenSumSet, MapThenFoldSet
<1> QED BY <1>1, <1>2, MoneyAssumption

-----------------------------------------------------------------------------
(* The inductive invariant, beside CashInv *)

\* The variables whose type rests on what sums return.
Rows ==
    /\ shift \in Seq(ShiftRow)
    /\ refund \in Seq(RefundRow)
    /\ drawer \in [Shifts -> Int]
    /\ req \in [Desks -> Request]

\* The refunds a count has read are rows.
HoldsRows(r) == r.step \in {"close", "reconcile"} => r.refunds \subseteq DOMAIN refund

DesksHoldRows == \A d \in Desks : HoldsRows(req[d])

InDrawer(s) == Opening + SumOf(Due, CollectedIn(s)) - SumOf(AmountsOf(refund), RefundsOf(s))

Figures == \A s \in Shifts : drawer[s] = InDrawer(s)

FigureInv == CashInv /\ Rows /\ DesksHoldRows /\ Figures

-----------------------------------------------------------------------------
(* Steps that leave the drawers alone *)

LEMMA OneDeskMoves ==
    ASSUME FigureInv, NEW d \in Desks, NEW r \in Request, HoldsRows(r)', Goes(d, r),
           DOMAIN refund \subseteq DOMAIN refund'
    PROVE  req' \in [Desks -> Request] /\ DesksHoldRows'
BY DEF FigureInv, Rows, DesksHoldRows, HoldsRows, Goes

\* A request that only goes on, whatever it does to overrides.
LEMMA GoesOn ==
    ASSUME FigureInv, CashInv', NEW d \in Desks, NEW r \in Request, HoldsRows(r), Goes(d, r),
           UNCHANGED <<shift, payment, refund, drawer>>
    PROVE  FigureInv'
<1>1. HoldsRows(r)'
  BY DEF HoldsRows
<1>2. req' \in [Desks -> Request] /\ DesksHoldRows'
  BY <1>1, OneDeskMoves
<1>3. Rows'
  BY <1>2 DEF FigureInv, Rows, Shifts
<1>4. Figures'
  BY DEF FigureInv, Figures, InDrawer, Shifts, CollectedIn, Collected, RefundsOf
<1> QED BY <1>2, <1>3, <1>4 DEF FigureInv

LEMMA IdleIsKnown == Idle \in Request /\ HoldsRows(Idle) /\ HoldsRows(Idle)'
BY DEF Idle, Request, HoldsRows
LEMMA ShiftNumbers ==
    ASSUME Rows PROVE Shifts = 1 .. Len(shift) /\ Len(shift) \in Nat /\ Shifts \subseteq Nat /\ None \notin Shifts
BY BoundsAssumption DEF Rows, Shifts

LEMMA BeginGoesOn ==
    ASSUME FigureInv, CashInv', NEW d \in Desks, Begin(d)
    PROVE  FigureInv'
<1>1. Shifts \subseteq Nat
  BY ShiftNumbers DEF FigureInv
<1>2. ASSUME NEW r \in Request, r.step \notin {"close", "reconcile"}, Starts(d, r)
      PROVE  FigureInv'
  BY <1>2, GoesOn DEF Starts, Goes, HoldsRows
<1>3. CASE OpenCheck(d)
  <2> DEFINE r == [step |-> "number", tries |-> 0]
  <2>1. r \in Request /\ r.step = "number"
    BY DEF Request
  <2>2. Starts(d, r)
    BY <1>3 DEF OpenCheck
  <2> HIDE DEF r
  <2> QED BY <1>2, <2>1, <2>2
<1>4. CASE \E p \in Cash : CollectRead(d, p)
  <2>1. PICK p \in Cash, s \in DrawersOf(User[d]) :
           Starts(d, [step |-> "collect", payment |-> p, shift |-> s])
    BY <1>4 DEF CollectRead
  <2> DEFINE r == [step |-> "collect", payment |-> p, shift |-> s]
  <2>2. s \in MaybeShift /\ p \in Payments
    BY <1>1, <2>1 DEF DrawersOf, OpenShifts, MaybeShift, Payments
  <2>3. r \in Request /\ r.step = "collect"
    BY <2>2 DEF Request
  <2>4. Starts(d, r)
    BY <2>1
  <2> HIDE DEF r
  <2> QED BY <1>2, <2>3, <2>4
<1>5. CASE \E p \in Online : LinkRead(d, p)
  <2>1. PICK p \in Online, s \in OpenShifts(User[d]) :
           Starts(d, [step |-> "link", payment |-> p, shift |-> s])
    BY <1>5 DEF LinkRead
  <2> DEFINE r == [step |-> "link", payment |-> p, shift |-> s]
  <2>2. s \in MaybeShift /\ p \in Payments
    BY <1>1, <2>1 DEF OpenShifts, MaybeShift, Payments
  <2>3. r \in Request /\ r.step = "link"
    BY <2>2 DEF Request
  <2>4. Starts(d, r)
    BY <2>1
  <2> HIDE DEF r
  <2> QED BY <1>2, <2>3, <2>4
<1>6. CASE \E p \in Payments : RefundRead(d, p)
  <2>0. PICK p \in Payments : RefundRead(d, p)
    BY <1>6
  <2>1. PICK amount \in 1 .. (Due[p] - Refunded(p)), s \in RefundDrawers(User[d], p) :
           Starts(d, [step |-> "refund", payment |-> p, shift |-> s, amount |-> amount])
    BY <2>0 DEF RefundRead
  <2> DEFINE r == [step |-> "refund", payment |-> p, shift |-> s, amount |-> amount]
  <2>2. s \in MaybeShift
    <3>1. payment[p] \in PaymentRow
      BY DEF FigureInv, CashInv, Shape
    <3> QED BY <1>1, <2>1, <3>1 DEF RefundDrawers, OpenShifts, MaybeShift, PaymentRow
  <2>3. amount \in Nat
    <3>1. PICK n : n = Due[p] - Refunded(p)
      OBVIOUS
    <3> QED BY <2>1, <3>1
  <2>4. r \in Request /\ r.step = "refund"
    BY <2>2, <2>3 DEF Request
  <2>5. Starts(d, r)
    BY <2>1
  <2> HIDE DEF r
  <2> QED BY <1>2, <2>4, <2>5
<1>7. CASE \E count \in Counts : CloseFind(d, count)
  <2>1. PICK count \in Counts, s \in OpenShifts(User[d]) :
           Starts(d, [step |-> "close", shift |-> s, count |-> count, toRead |-> Totals,
                      sales |-> {}, refunds |-> {}])
    BY <1>7 DEF CloseFind
  <2> DEFINE r == [step |-> "close", shift |-> s, count |-> count, toRead |-> Totals,
                   sales |-> {}, refunds |-> {}]
  <2>2. s \in Nat
    BY <1>1, <2>1 DEF OpenShifts
  <2>3. r \in Request /\ r.refunds = {}
    BY <2>2 DEF Request, Totalling
  <2>4. Starts(d, r)
    BY <2>1
  <2> HIDE DEF r
  <2>5. HoldsRows(r)
    BY <2>3 DEF HoldsRows
  <2> QED BY <2>3, <2>4, <2>5, GoesOn DEF Starts, Goes
<1>8. CASE \E s \in Shifts, count \in Counts \cup {None} : OverrideRead(d, s, count)
  <2>1. PICK s \in Shifts, count \in Counts \cup {None} :
           Starts(d, [step |-> "override", shift |-> s, count |-> count])
    BY <1>8 DEF OverrideRead
  <2> DEFINE r == [step |-> "override", shift |-> s, count |-> count]
  <2>2. r \in Request /\ r.step = "override"
    BY <1>1 DEF Request
  <2>3. Starts(d, r)
    BY <2>1
  <2> HIDE DEF r
  <2> QED BY <1>2, <2>2, <2>3
<1>9. CASE \E o \in DOMAIN override, approve \in BOOLEAN : DecideFind(d, o, approve)
  <2>1. PICK o \in DOMAIN override, approve \in BOOLEAN :
           Starts(d, [step |-> "decide", override |-> o, approve |-> approve])
    BY <1>9 DEF DecideFind
  <2> DEFINE r == [step |-> "decide", override |-> o, approve |-> approve]
  <2>2. o \in Nat
    BY DEF FigureInv, CashInv, Shape
  <2>3. r \in Request /\ r.step = "decide"
    BY <2>1, <2>2 DEF Request
  <2>4. Starts(d, r)
    BY <2>1
  <2> HIDE DEF r
  <2> QED BY <1>2, <2>3, <2>4
<1>10. CASE \E s \in Shifts : ReopenRead(d, s)
  <2>1. PICK s \in Shifts : Starts(d, [step |-> "reopen", shift |-> s])
    BY <1>10 DEF ReopenRead
  <2> DEFINE r == [step |-> "reopen", shift |-> s]
  <2>2. r \in Request /\ r.step = "reopen"
    BY <1>1 DEF Request
  <2>3. Starts(d, r)
    BY <2>1
  <2> HIDE DEF r
  <2> QED BY <1>2, <2>2, <2>3
<1> QED BY <1>3, <1>4, <1>5, <1>6, <1>7, <1>8, <1>9, <1>10 DEF Begin

-----------------------------------------------------------------------------
(* Requests that go on *)

LEMMA NumberGoesOn ==
    ASSUME FigureInv, CashInv', NEW d \in Desks, NextShiftNumber(d)
    PROVE  FigureInv'
<1> DEFINE r == [step |-> "create", tries |-> req[d].tries, number |-> Len(shift) + 1]
<1>1. req[d].tries \in Nat
  BY DEF NextShiftNumber, At, FigureInv, Rows, Request, Idle, Totalling
<1>2. r \in Request /\ r.step = "create"
  BY <1>1, ShiftNumbers DEF Request, FigureInv
<1>3. Goes(d, r)
  BY DEF NextShiftNumber
<1> HIDE DEF r
<1> QED BY <1>2, <1>3, GoesOn DEF NextShiftNumber, HoldsRows

\* The rows a total is made of.
LEMMA TotalsOf ==
    ASSUME NEW s
    PROVE  SalesOf(s) \subseteq Payments /\ RefundsOf(s) \subseteq DOMAIN refund
BY DEF SalesOf, CollectedIn, RefundsOf, Payments

LEMMA ReadSalesGoesOn ==
    ASSUME FigureInv, CashInv', NEW d \in Desks, ReadSales(d)
    PROVE  FigureInv'
<1>1. PICK q \in Totalling : q = req[d]
  BY TotallingRow DEF ReadSales, FigureInv, At
<1> DEFINE r == [q EXCEPT !.sales = SalesOf(q.shift), !.toRead = @ \ {"sales"}]
<1>2. r \in Totalling /\ r.refunds = q.refunds /\ r.step = q.step
  BY <1>1, TotalsOf DEF Totalling
<1>3. r \in Request
  BY <1>2 DEF Request
<1>4. Goes(d, r)
  BY <1>1 DEF ReadSales
<1>5. HoldsRows(q)
  BY <1>1 DEF FigureInv, DesksHoldRows
<1> HIDE DEF r
<1>6. HoldsRows(r)
  BY <1>2, <1>5 DEF HoldsRows
<1> QED BY <1>3, <1>4, <1>6, GoesOn DEF ReadSales

LEMMA ReadRefundsGoesOn ==
    ASSUME FigureInv, CashInv', NEW d \in Desks, ReadRefunds(d)
    PROVE  FigureInv'
<1>1. PICK q \in Totalling : q = req[d]
  BY TotallingRow DEF ReadRefunds, FigureInv, At
<1> DEFINE r == [q EXCEPT !.refunds = RefundsOf(q.shift), !.toRead = @ \ {"refunds"}]
<1>2. DOMAIN refund \subseteq Nat
  BY DEF FigureInv, Rows
<1>3. r \in Totalling /\ r.refunds = RefundsOf(q.shift)
  <2>1. RefundsOf(q.shift) \in SUBSET Nat
    BY <1>2, TotalsOf
  <2> QED BY <1>1, <2>1 DEF Totalling
<1>4. r \in Request
  BY <1>3 DEF Request
<1>5. Goes(d, r)
  BY <1>1 DEF ReadRefunds
<1> HIDE DEF r
<1>6. HoldsRows(r)
  BY <1>3, TotalsOf DEF HoldsRows
<1> QED BY <1>4, <1>5, <1>6, GoesOn DEF ReadRefunds

LEMMA OverrideCreateGoesOn ==
    ASSUME FigureInv, CashInv', NEW d \in Desks, OverrideCreate(d)
    PROVE  FigureInv'
BY IdleIsKnown, GoesOn DEF OverrideCreate

LEMMA DecideLockGoesOn ==
    ASSUME FigureInv, CashInv', NEW d \in Desks, DecideLock(d)
    PROVE  FigureInv'
<1>1. PICK q : q = req[d]
  OBVIOUS
<1>2. q.step = "decide" /\ q.approve \in BOOLEAN /\ q.override \in DOMAIN override
  BY <1>1 DEF DecideLock, At, FigureInv, CashInv, DesksInv, DeskInv, Fits, HoldsItsOwn
<1>3. q.override \in Nat /\ override[q.override].shift \in Nat
  <2>1. override \in Seq(OverrideRow)
    BY DEF FigureInv, CashInv, Shape
  <2>2. q.override \in Nat /\ override[q.override] \in OverrideRow
    BY <1>2, <2>1
  <2> QED BY <2>2 DEF OverrideRow
<1> DEFINE r == [step |-> "reconcile", shift |-> override[q.override].shift,
                 override |-> q.override, approve |-> q.approve,
                 toRead |-> IF Reconciles(q) THEN Totals ELSE {},
                 sales |-> {}, refunds |-> {}]
<1>4. r \in Request /\ r.refunds = {}
  BY <1>2, <1>3 DEF Request, Totalling
<1>5. Goes(d, r)
  BY <1>1 DEF DecideLock
<1> HIDE DEF r
<1> QED BY <1>4, <1>5, GoesOn DEF DecideLock, HoldsRows
-----------------------------------------------------------------------------
(* Shifts that are written *)

LEMMA ShiftRowWritten ==
    ASSUME FigureInv, CashInv', NEW d \in Desks, Goes(d, Idle),
           UNCHANGED <<payment, refund, drawer>>,
           NEW s \in Shifts, NEW row \in ShiftRow, shift' = [shift EXCEPT ![s] = row]
    PROVE  FigureInv'
<1>1. shift' \in Seq(ShiftRow) /\ Shifts' = Shifts
  BY Written DEF FigureInv, Rows, Shifts
<1>2. req' \in [Desks -> Request] /\ DesksHoldRows'
  BY IdleIsKnown, OneDeskMoves
<1>3. Rows'
  BY <1>1, <1>2 DEF FigureInv, Rows
<1>4. Figures'
  BY <1>1 DEF FigureInv, Figures, InDrawer, CollectedIn, Collected, RefundsOf
<1> QED BY <1>2, <1>3, <1>4 DEF FigureInv

\* What a count expects is a number.
LEMMA CountExpects ==
    ASSUME FigureInv, NEW d \in Desks, req[d].step \in {"close", "reconcile"}
    PROVE  Expected(req[d].sales, req[d].refunds) \in Int
<1>1. PICK q \in Totalling : q = req[d]
  BY TotallingRow DEF FigureInv
<1>2. q.sales \in SUBSET Payments
  BY DEF Totalling
<1>3. q.refunds \in SUBSET DOMAIN refund
  BY <1>1 DEF FigureInv, DesksHoldRows, HoldsRows
<1> QED BY <1>1, <1>2, <1>3, ExpectedIs DEF FigureInv, Rows

LEMMA CloseWriteFigures ==
    ASSUME FigureInv, CashInv', NEW d \in Desks, CloseWrite(d)
    PROVE  FigureInv'
<1>1. PICK q \in Totalling : q = req[d] /\ q.step = "close"
  BY TotallingRow DEF CloseWrite, At, FigureInv
<1>2. q.count \in Int /\ q.shift \in Nat
  <2>1. q.count \in Counts /\ q.shift \in Nat
    BY <1>1 DEF Totalling
  <2>2. \A n \in Counts : n \in Int
    BY MoneyAssumption
  <2> QED BY <2>1, <2>2
<1>3. q.shift \in Shifts
  BY <1>1, <1>2, BoundsAssumption DEF FigureInv, CashInv, DesksInv, DeskInv, HoldsItsOwn
<1>4. PICK expected \in Int : expected = Expected(q.sales, q.refunds)
  BY <1>1, CountExpects
<1> DEFINE row == [status |-> "CLOSED", user |-> shift[q.shift].user, closing |-> q.count,
                   expected |-> expected, difference |-> q.count - expected]
<1>5. shift[q.shift] \in ShiftRow
  BY <1>3 DEF FigureInv, Rows, Shifts
<1>6. row \in ShiftRow
  BY <1>2, <1>5 DEF ShiftRow
<1>7. shift' = [shift EXCEPT ![q.shift] = row] /\ Goes(d, Idle)
      /\ UNCHANGED <<payment, refund, drawer>>
  BY <1>1, <1>4 DEF CloseWrite
<1> HIDE DEF row
<1> QED BY <1>3, <1>6, <1>7, ShiftRowWritten

LEMMA DecideWriteFigures ==
    ASSUME FigureInv, CashInv', NEW d \in Desks, DecideWrite(d)
    PROVE  FigureInv'
<1>1. PICK q \in Totalling : q = req[d] /\ q.step = "reconcile" /\ DeskInv(d, q)
  BY TotallingRow DEF DecideWrite, At, FigureInv
<1>2. /\ q.override \in DOMAIN override /\ q.shift = override[q.override].shift
      /\ q.shift \in Shifts
  BY <1>1 DEF DeskInv, HoldsItsOwn, FigureInv, CashInv, OverridesInv
<1>3. Goes(d, Idle) /\ UNCHANGED <<payment, refund, drawer>>
  BY DEF DecideWrite
<1>4. CASE Reconciles(q)
  <2>1. PICK expected \in Int : expected = Expected(q.sales, q.refunds)
    BY <1>1, CountExpects
  <2>2. PICK count \in Int : count = override[q.override].count
    <3>1. override \in Seq(OverrideRow)
      BY DEF FigureInv, CashInv, Shape
    <3>2. override[q.override] \in OverrideRow
      BY <1>2, <3>1
    <3>3. override[q.override].count \in Counts
      BY <1>4, <3>2 DEF OverrideRow, Reconciles
    <3>4. \A n \in Counts : n \in Int
      BY MoneyAssumption
    <3> QED BY <3>3, <3>4
  <2> DEFINE row == [shift[q.shift] EXCEPT !.closing = count, !.difference = count - expected]
  <2>3. shift[q.shift] \in ShiftRow
    BY <1>2 DEF FigureInv, Rows, Shifts
  <2>4. row \in ShiftRow
    <3>1. PICK difference \in Int : difference = count - expected
      OBVIOUS
    <3>2. [shift[q.shift] EXCEPT !.closing = count, !.difference = difference] \in ShiftRow
      BY <2>3 DEF ShiftRow
    <3> QED BY <3>1, <3>2
  <2>5. shift' = [shift EXCEPT ![q.shift] = row]
    BY <1>1, <1>4, <2>1, <2>2 DEF DecideWrite
  <2> HIDE DEF row
  <2> QED BY <1>2, <1>3, <2>4, <2>5, ShiftRowWritten
<1>5. CASE ~Reconciles(q)
  BY <1>1, <1>3, <1>5, IdleIsKnown, GoesOn DEF DecideWrite
<1> QED BY <1>4, <1>5

LEMMA ReopenWriteFigures ==
    ASSUME FigureInv, CashInv', NEW d \in Desks, ReopenWrite(d)
    PROVE  FigureInv'
<1>1. PICK s \in Shifts : s = req[d].shift
  BY DEF ReopenWrite, At, FigureInv, CashInv, DesksInv, DeskInv, HoldsItsOwn
<1>2. shift[s] \in ShiftRow
  BY DEF FigureInv, Rows, Shifts
<1>3. NewShift(shift[s].user) \in ShiftRow
  BY <1>2 DEF NewShift, ShiftRow
<1>4. shift' = [shift EXCEPT ![s] = NewShift(shift[s].user)] /\ Goes(d, Idle)
      /\ UNCHANGED <<payment, refund, drawer>>
  BY <1>1 DEF ReopenWrite
<1> QED BY <1>3, <1>4, ShiftRowWritten

-----------------------------------------------------------------------------
(* Money that moves *)

\* A drawer is untouched by what does not touch its payments and refunds.
LEMMA DrawerStays ==
    ASSUME FigureInv, refund' \in Seq(RefundRow), NEW s,
           CollectedIn(s)' = CollectedIn(s), RefundsOf(s)' = RefundsOf(s),
           \A i \in RefundsOf(s) : refund'[i].amount = refund[i].amount
    PROVE  InDrawer(s)' = InDrawer(s)
<1>1. PICK R : R = RefundsOf(s)
  OBVIOUS
<1>2. PICK v : v = AmountsOf(refund)
  OBVIOUS
<1>3. PICK w : w = AmountsOf(refund')
  OBVIOUS
<1>4. R \subseteq DOMAIN refund /\ R \subseteq DOMAIN refund'
  BY <1>1 DEF RefundsOf
<1>5. IsFiniteSet(R) /\ Numbers(v, R)
  BY <1>2, <1>4, RefundsAdd DEF FigureInv, Rows
<1>6. \A i \in R : w[i] = v[i]
  BY <1>1, <1>2, <1>3, <1>4 DEF AmountsOf
<1>7. SumOf(w, R) = SumOf(v, R)
  BY <1>5, <1>6, SumOfEqual
<1> QED BY <1>1, <1>2, <1>3, <1>7 DEF InDrawer

\* What is in a drawer is a number.
LEMMA DrawerIsNumber ==
    ASSUME FigureInv, NEW s PROVE InDrawer(s) \in Int
<1>1. CollectedIn(s) \in SUBSET Payments /\ RefundsOf(s) \in SUBSET DOMAIN refund
  BY DEF CollectedIn, RefundsOf, Payments
<1>2. SumOf(Due, CollectedIn(s)) \in Int /\ SumOf(AmountsOf(refund), RefundsOf(s)) \in Int
  BY <1>1, PaymentsAdd, RefundsAdd DEF FigureInv, Rows
<1> QED BY <1>2, MoneyAssumption DEF InDrawer
\* A step that moves no money.
LEMMA NothingMoves ==
    ASSUME FigureInv, CashInv', refund' \in Seq(RefundRow), DOMAIN refund \subseteq DOMAIN refund',
           req' \in [Desks -> Request], DesksHoldRows', UNCHANGED <<shift, drawer>>,
           \A s \in Shifts :
              /\ CollectedIn(s)' = CollectedIn(s) /\ RefundsOf(s)' = RefundsOf(s)
              /\ \A i \in RefundsOf(s) : refund'[i].amount = refund[i].amount
    PROVE  FigureInv'
<1>1. Rows'
  BY DEF FigureInv, Rows, Shifts
<1>2. ASSUME NEW s \in Shifts PROVE InDrawer(s)' = InDrawer(s)
  BY DrawerStays
<1>3. Figures'
  BY <1>2 DEF FigureInv, Figures, Shifts
<1> QED BY <1>1, <1>3 DEF FigureInv

LEMMA SequenceIsFunction ==
    ASSUME NEW S, NEW q \in Seq(S) PROVE q \in [DOMAIN q -> S]
OBVIOUS

LEMMA CreateShiftFigures ==
    ASSUME FigureInv, CashInv', NEW d \in Desks, CreateShift(d)
    PROVE  FigureInv'
<1>1. CASE shift' = Append(shift, NewShift(User[d])) /\ drawer' = Append(drawer, Opening)
           /\ Goes(d, Idle)
  <2>1. NewShift(User[d]) \in ShiftRow
    BY DEF FigureInv, CashInv, DesksInv, DeskInv, HoldsItsOwn, CreateShift, At, NewShift, ShiftRow
  <2>2. PICK n : n = Len(shift) + 1
    OBVIOUS
  <2>3. shift' \in Seq(ShiftRow) /\ Shifts' = Shifts \cup {n} /\ n \notin Shifts /\ n \in Nat
    BY <1>1, <2>1, <2>2, Longer DEF FigureInv, Rows, Shifts
  <2>4. drawer' \in [Shifts' -> Int] /\ drawer'[n] = Opening
        /\ \A s \in Shifts : drawer'[s] = drawer[s]
    <3>1. drawer \in Seq(Int) /\ Len(drawer) = Len(shift)
      BY ShiftNumbers DEF FigureInv, Rows
    <3>2. Opening \in Int
      BY MoneyAssumption
    <3>3. /\ drawer' \in Seq(Int) /\ DOMAIN drawer' = DOMAIN drawer \cup {n} /\ drawer'[n] = Opening
          /\ \A s \in DOMAIN drawer : drawer'[s] = drawer[s]
      BY <1>1, <2>2, <3>1, <3>2, Longer
    <3>4. DOMAIN drawer = Shifts
      BY DEF FigureInv, Rows
    <3>5. drawer' \in [DOMAIN drawer' -> Int]
      BY <3>3, SequenceIsFunction
    <3> QED BY <2>3, <3>3, <3>4, <3>5
  <2>5. UNCHANGED <<payment, refund>>
    BY DEF CreateShift
  <2>6. req' \in [Desks -> Request] /\ DesksHoldRows'
    BY <1>1, <2>5, IdleIsKnown, OneDeskMoves
  <2>7. Rows'
    BY <2>3, <2>4, <2>5, <2>6 DEF FigureInv, Rows
  <2>8. \A s : InDrawer(s)' = InDrawer(s)
    BY <2>5 DEF InDrawer, CollectedIn, Collected, RefundsOf
  <2>9. InDrawer(n) = Opening
    <3>1. n # None
      BY <2>3, BoundsAssumption
    <3>2. CollectedIn(n) = {}
      BY <2>3, <3>1 DEF CollectedIn, FigureInv, CashInv, PaymentsInv, Payments
    <3>3. RefundsOf(n) = {}
      BY <2>3, <3>1 DEF RefundsOf, FigureInv, CashInv, RefundsInv, FromItsDrawer
    <3> QED BY <3>2, <3>3, SumOfNone, MoneyAssumption DEF InDrawer
  <2>10. Figures'
    BY <2>3, <2>4, <2>8, <2>9 DEF FigureInv, Figures
  <2> QED BY <2>6, <2>7, <2>10 DEF FigureInv
<1>2. CASE UNCHANGED <<shift, drawer>>
           /\ Goes(d, IF req[d].tries + 1 = MaxTries THEN Idle
                      ELSE [step |-> "number", tries |-> req[d].tries + 1])
  <2> DEFINE r == IF req[d].tries + 1 = MaxTries THEN Idle
                  ELSE [step |-> "number", tries |-> req[d].tries + 1]
  <2>1. req[d].tries \in Nat
    BY DEF CreateShift, At, FigureInv, Rows, Request, Idle, Totalling
  <2>2. r \in Request
    BY <2>1 DEF Request
  <2>3. HoldsRows(r)
    BY DEF HoldsRows, Idle
  <2>4. Goes(d, r)
    BY <1>2
  <2> HIDE DEF r
  <2> QED BY <1>2, <2>2, <2>3, <2>4, GoesOn DEF CreateShift
<1> QED BY <1>1, <1>2 DEF CreateShift

LEMMA CollectWriteFigures ==
    ASSUME FigureInv, CashInv', NEW d \in Desks, CollectWrite(d)
    PROVE  FigureInv'
<1>1. PICK p \in Cash, s \in Shifts \cup {None} : p = req[d].payment /\ s = req[d].shift
  BY DEF CollectWrite, At, FigureInv, CashInv, DesksInv, DeskInv, HoldsItsOwn
<1>2. UNCHANGED <<shift, refund>> /\ Goes(d, Idle)
  BY DEF CollectWrite
<1>3. req' \in [Desks -> Request] /\ DesksHoldRows'
  BY <1>2, IdleIsKnown, OneDeskMoves
<1>4. CASE ~Takes(p)
  BY <1>1, <1>2, <1>4, IdleIsKnown, GoesOn DEF CollectWrite
<1>5. CASE Takes(p)
  <2>1. payment \in [Payments -> PaymentRow] /\ p \in Payments
    BY DEF FigureInv, CashInv, Shape, Payments
  <2>2. payment' = [payment EXCEPT ![p] = [status |-> "PAID", shift |-> s]]
    BY <1>1, <1>5 DEF CollectWrite
  <2>3. ~Collected(p)
    BY <1>5 DEF Takes, Collected
  <2>4. \A t : CollectedIn(t)' = IF t = s THEN CollectedIn(t) \cup {p} ELSE CollectedIn(t)
    BY <2>1, <2>2, <2>3 DEF CollectedIn, Collected, Payments
  <2>5. \A t : RefundsOf(t)' = RefundsOf(t)
    BY <1>2 DEF RefundsOf
  <2>6. Due[p] \in Int
    BY <2>1, MoneyAssumption
  <2>7. Rows'
    BY <1>1, <1>2, <1>3, <1>5, <2>6 DEF CollectWrite, FigureInv, Rows, Shifts
  <2>8. ASSUME NEW t \in Shifts PROVE drawer'[t] = InDrawer(t)'
    <3>1. drawer[t] = InDrawer(t)
      BY DEF FigureInv, Figures
    <3>2. CASE t # s
      <4>1. InDrawer(t)' = InDrawer(t)
        BY <1>2, <2>4, <2>5, <3>2 DEF InDrawer
      <4>2. drawer'[t] = drawer[t]
        BY <1>1, <1>5, <3>2 DEF CollectWrite, FigureInv, Rows
      <4> QED BY <3>1, <4>1, <4>2
    <3>3. CASE t = s
      <4>1. PICK S \in SUBSET Payments : S = CollectedIn(t)
        BY TotalsOf DEF CollectedIn, Payments
      <4>2. p \notin S
        BY <2>3, <4>1 DEF CollectedIn
      <4>3. SumOf(Due, S \cup {p}) = Due[p] + SumOf(Due, S) /\ SumOf(Due, S) \in Int
        BY <2>6, <4>2, PaymentsAdd, SumWith
      <4>4. PICK taken \in Int : taken = SumOf(AmountsOf(refund), RefundsOf(t))
        BY TotalsOf, RefundsAdd DEF FigureInv, Rows
      <4>5. InDrawer(t) = Opening + SumOf(Due, S) - taken
        BY <4>1, <4>4 DEF InDrawer
      <4>6. InDrawer(t)' = Opening + SumOf(Due, S \cup {p}) - taken
        BY <1>2, <2>4, <2>5, <3>3, <4>1, <4>4 DEF InDrawer
      <4>7. drawer'[t] = drawer[t] + Due[p]
        <5>1. s # None
          BY <3>3, ShiftNumbers DEF FigureInv
        <5> QED BY <1>1, <1>5, <3>3, <5>1 DEF CollectWrite, FigureInv, Rows
      <4> QED BY <2>6, <3>1, <4>3, <4>4, <4>5, <4>6, <4>7, MoneyAssumption
    <3> QED BY <3>2, <3>3
  <2>9. Figures'
    BY <1>2, <2>8 DEF Figures, Shifts
  <2> QED BY <1>3, <2>7, <2>9 DEF FigureInv
<1> QED BY <1>4, <1>5
LEMMA LinkWriteFigures ==
    ASSUME FigureInv, CashInv', NEW d \in Desks, LinkWrite(d)
    PROVE  FigureInv'
<1>1. PICK p \in Online : p = req[d].payment
  BY DEF LinkWrite, At, FigureInv, CashInv, DesksInv, DeskInv, HoldsItsOwn
<1>2. UNCHANGED <<shift, refund, drawer>> /\ Goes(d, Idle)
  BY DEF LinkWrite
<1>3. req' \in [Desks -> Request] /\ DesksHoldRows'
  BY <1>2, IdleIsKnown, OneDeskMoves
<1>4. \A q \in Cash : payment'[q] = payment[q]
  BY <1>1, MoneyAssumption DEF LinkWrite, FigureInv, CashInv, Shape, Payments
<1>5. \A s : CollectedIn(s)' = CollectedIn(s) /\ RefundsOf(s)' = RefundsOf(s)
  BY <1>2, <1>4 DEF CollectedIn, Collected, RefundsOf
<1> QED BY <1>2, <1>3, <1>5, NothingMoves DEF FigureInv, Rows

LEMMA OnlinePaidFigures ==
    ASSUME FigureInv, CashInv', NEW p \in Online, OnlinePaid(p)
    PROVE  FigureInv'
<1>1. UNCHANGED <<shift, refund, drawer, req>>
  BY DEF OnlinePaid
<1>2. \A q \in Cash : payment'[q] = payment[q]
  BY MoneyAssumption DEF OnlinePaid, FigureInv, CashInv, Shape, Payments
<1>3. \A s : CollectedIn(s)' = CollectedIn(s) /\ RefundsOf(s)' = RefundsOf(s)
  BY <1>1, <1>2 DEF CollectedIn, Collected, RefundsOf
<1>4. req' \in [Desks -> Request] /\ DesksHoldRows'
  BY <1>1 DEF FigureInv, Rows, DesksHoldRows, HoldsRows
<1> QED BY <1>1, <1>3, <1>4, NothingMoves DEF FigureInv, Rows

LEMMA RefundCreateFigures ==
    ASSUME FigureInv, CashInv', NEW d \in Desks, RefundCreate(d)
    PROVE  FigureInv'
<1>1. PICK r : r = req[d]
  OBVIOUS
<1>2. UNCHANGED <<shift, payment, drawer>> /\ Goes(d, Idle)
  BY DEF RefundCreate
<1>3. CASE PendingRefund(r.payment)
  BY <1>1, <1>2, <1>3, IdleIsKnown, GoesOn DEF RefundCreate
<1>4. CASE ~PendingRefund(r.payment)
  <2> DEFINE row == [payment |-> r.payment, shift |-> r.shift, amount |-> r.amount,
                     status |-> "PENDING"]
  <2>1. r \in Request /\ r.step = "refund"
    BY <1>1 DEF RefundCreate, At, FigureInv, Rows
  <2>2. r.payment \in Payments /\ r.shift \in MaybeShift /\ r.amount \in Nat
    BY <2>1 DEF Request, Totalling, Idle
  <2>3. row \in RefundRow /\ row.status = "PENDING"
    BY <2>2 DEF RefundRow
  <2>4. refund' = Append(refund, row)
    BY <1>1, <1>4 DEF RefundCreate
  <2> HIDE DEF row
  <2>5. /\ refund' \in Seq(RefundRow) /\ DOMAIN refund' = DOMAIN refund \cup {Len(refund) + 1}
        /\ Len(refund) + 1 \notin DOMAIN refund
        /\ \A i \in DOMAIN refund : refund'[i] = refund[i]
        /\ refund'[Len(refund) + 1] = row
    BY <2>3, <2>4, Longer DEF FigureInv, Rows
  <2>6. \A s : RefundsOf(s)' = RefundsOf(s)
    BY <2>3, <2>5 DEF RefundsOf
  <2>7. \A s : CollectedIn(s)' = CollectedIn(s)
    BY <1>2 DEF CollectedIn, Collected
  <2>8. req' \in [Desks -> Request] /\ DesksHoldRows'
    BY <1>2, <2>5, IdleIsKnown, OneDeskMoves
  <2>9. \A s : \A i \in RefundsOf(s) : refund'[i].amount = refund[i].amount
    BY <2>5 DEF RefundsOf
  <2> QED BY <1>2, <2>5, <2>6, <2>7, <2>8, <2>9, NothingMoves
<1> QED BY <1>3, <1>4

\* The refunds after one was decided.
LEMMA RefundRowDecided ==
    ASSUME FigureInv, NEW i \in DOMAIN refund, NEW st \in {"APPROVED", "REJECTED"},
           refund' = [refund EXCEPT ![i].status = st]
    PROVE  /\ refund' \in Seq(RefundRow) /\ DOMAIN refund' = DOMAIN refund
           /\ refund'[i].status = st
           /\ \A j \in DOMAIN refund :
                 /\ refund'[j].shift = refund[j].shift /\ refund'[j].amount = refund[j].amount
                 /\ j # i => refund'[j] = refund[j]
<1>1. \A j \in DOMAIN refund : refund[j] \in RefundRow
  BY DEF FigureInv, Rows
<1> DEFINE row == [refund[i] EXCEPT !.status = st]
<1>2. /\ row \in RefundRow /\ row.status = st
      /\ row.shift = refund[i].shift /\ row.amount = refund[i].amount
  BY <1>1 DEF RefundRow
<1>3. refund' = [refund EXCEPT ![i] = row]
  OBVIOUS
<1> HIDE DEF row
<1>4. /\ refund' \in Seq(RefundRow) /\ DOMAIN refund' = DOMAIN refund
      /\ \A j \in DOMAIN refund : refund'[j] = IF j = i THEN row ELSE refund[j]
  <2>1. PICK S : S = RefundRow
    OBVIOUS
  <2>2. refund \in Seq(S) /\ row \in S
    BY <1>2, <2>1 DEF FigureInv, Rows
  <2>3. /\ refund' \in Seq(S) /\ DOMAIN refund' = DOMAIN refund
        /\ \A j \in DOMAIN refund : refund'[j] = IF j = i THEN row ELSE refund[j]
    BY <1>3, <2>2, Written
  <2> QED BY <2>1, <2>3
<1> QED BY <1>2, <1>4

LEMMA RejectRefundFigures ==
    ASSUME FigureInv, CashInv', NEW i \in DOMAIN refund, RejectRefund(i)
    PROVE  FigureInv'
<1>1. refund' = [refund EXCEPT ![i].status = "REJECTED"] /\ refund[i].status = "PENDING"
      /\ UNCHANGED <<shift, payment, drawer, req>>
  BY DEF RejectRefund
<1>2. \A s : RefundsOf(s)' = RefundsOf(s)
  BY <1>1, RefundRowDecided DEF RefundsOf
<1>3. \A s : CollectedIn(s)' = CollectedIn(s)
  BY <1>1 DEF CollectedIn, Collected
<1>4. req' \in [Desks -> Request] /\ DesksHoldRows'
  BY <1>1, RefundRowDecided DEF FigureInv, Rows, DesksHoldRows, HoldsRows
<1>5. \A s : \A j \in RefundsOf(s) : refund'[j].amount = refund[j].amount
  BY <1>1, RefundRowDecided DEF RefundsOf
<1> QED BY <1>1, <1>2, <1>3, <1>4, <1>5, RefundRowDecided, NothingMoves

LEMMA ApproveRefundFigures ==
    ASSUME FigureInv, CashInv', NEW i \in DOMAIN refund, ApproveRefund(i)
    PROVE  FigureInv'
<1>1. PICK s, a : s = refund[i].shift /\ a = refund[i].amount
  OBVIOUS
<1>2. a \in Int /\ refund[i].payment \in Payments /\ s \in Shifts \cup {None}
  <2>1. refund[i] \in RefundRow
    BY DEF FigureInv, Rows
  <2>2. s \in Shifts \cup {None}
    BY <1>1 DEF FigureInv, CashInv, RefundsInv, FromItsDrawer
  <2> QED BY <1>1, <2>1, <2>2 DEF RefundRow
<1>3. refund' = [refund EXCEPT ![i].status = "APPROVED"] /\ refund[i].status = "PENDING"
      /\ UNCHANGED <<shift, req>>
  BY DEF ApproveRefund
<1>4. /\ refund' \in Seq(RefundRow) /\ DOMAIN refund' = DOMAIN refund
      /\ refund'[i].status = "APPROVED"
      /\ \A j \in DOMAIN refund :
            /\ refund'[j].shift = refund[j].shift /\ refund'[j].amount = refund[j].amount
            /\ j # i => refund'[j] = refund[j]
  BY <1>3, RefundRowDecided
<1>5. req' \in [Desks -> Request] /\ DesksHoldRows'
  BY <1>3, <1>4 DEF FigureInv, Rows, DesksHoldRows, HoldsRows
<1>6. drawer' = IF s = None THEN drawer ELSE [drawer EXCEPT ![s] = @ - a]
  BY <1>1 DEF ApproveRefund
<1>7. drawer' \in [Shifts' -> Int]
  BY <1>2, <1>3, <1>6 DEF FigureInv, Rows, Shifts
<1>8. Rows'
  BY <1>3, <1>4, <1>5, <1>7 DEF FigureInv, Rows
<1>9. \A t : CollectedIn(t)' = CollectedIn(t)
  <2>1. payment \in [Payments -> PaymentRow] /\ Collected(refund[i].payment)
    BY DEF FigureInv, CashInv, Shape, RefundsInv
  <2>2. \A q \in Payments : payment'[q].shift = payment[q].shift
                             /\ (Collected(q)' <=> Collected(q))
    <3>1. CASE payment' = payment
      BY <3>1 DEF Collected
    <3>2. CASE payment' = [payment EXCEPT ![refund[i].payment].status = "REFUNDED"]
      BY <1>2, <2>1, <3>2 DEF Collected, PaymentRow
    <3> QED BY <3>1, <3>2 DEF ApproveRefund
  <2> QED BY <2>2 DEF CollectedIn, Payments
<1>10. \A t : RefundsOf(t)' = IF t = s THEN RefundsOf(t) \cup {i} ELSE RefundsOf(t)
  BY <1>1, <1>3, <1>4 DEF RefundsOf
<1>11. ASSUME NEW t \in Shifts PROVE drawer'[t] = InDrawer(t)'
  <2>1. drawer[t] = InDrawer(t)
    BY DEF FigureInv, Figures
  <2>2. CASE t # s
    <3>1. InDrawer(t)' = InDrawer(t)
      <4>1. \A j \in RefundsOf(t) : refund'[j].amount = refund[j].amount
        BY <1>4 DEF RefundsOf
      <4> QED BY <1>4, <1>9, <1>10, <2>2, <4>1, DrawerStays
    <3>2. drawer'[t] = drawer[t]
      BY <1>6, <2>2 DEF FigureInv, Rows
    <3> QED BY <2>1, <3>1, <3>2
  <2>3. CASE t = s
    <3>1. PICK R : R = RefundsOf(t)
      OBVIOUS
    <3>2. PICK v : v = AmountsOf(refund)
      OBVIOUS
    <3>3. PICK w : w = AmountsOf(refund')
      OBVIOUS
    <3>4. R \in SUBSET DOMAIN refund /\ i \notin R
      BY <1>3, <3>1 DEF RefundsOf
    <3>5. IsFiniteSet(R) /\ Numbers(v, R) /\ SumOf(v, R) \in Int
      BY <3>2, <3>4, RefundsAdd DEF FigureInv, Rows
    <3>6. \A j \in R \cup {i} : w[j] = v[j] /\ v[i] = a
      BY <1>1, <1>4, <3>2, <3>3, <3>4 DEF AmountsOf
    <3>7. IsFiniteSet(R \cup {i}) /\ Numbers(v, R \cup {i})
      BY <1>2, <3>5, <3>6, FS_AddElement DEF Numbers
    <3>8. SumOf(w, R \cup {i}) = SumOf(v, R \cup {i})
      BY <3>6, <3>7, SumOfEqual
    <3>9. SumOf(v, R \cup {i}) = a + SumOf(v, R)
      BY <1>2, <3>4, <3>5, <3>6, SumWith
    <3>10. PICK got \in Int : got = SumOf(Due, CollectedIn(t))
      <4>1. CollectedIn(t) \in SUBSET Payments
        BY DEF CollectedIn, Payments
      <4> QED BY <4>1, PaymentsAdd
    <3>11. InDrawer(t) = Opening + got - SumOf(v, R)
      BY <3>1, <3>2, <3>10 DEF InDrawer
    <3>12. InDrawer(t)' = Opening + got - SumOf(w, R \cup {i})
      BY <1>9, <1>10, <2>3, <3>1, <3>3, <3>10 DEF InDrawer
    <3>13. drawer'[t] = drawer[t] - a
      <4>1. s # None
        BY <2>3, ShiftNumbers DEF FigureInv
      <4> QED BY <1>6, <2>3, <4>1 DEF FigureInv, Rows
    <3> QED BY <1>2, <2>1, <3>5, <3>8, <3>9, <3>11, <3>12, <3>13, MoneyAssumption
  <2> QED BY <2>2, <2>3
<1>12. Figures'
  BY <1>3, <1>11 DEF Figures, Shifts
<1> QED BY <1>5, <1>8, <1>12 DEF FigureInv

-----------------------------------------------------------------------------
(* Every step *)

LEMMA FigureStep ==
    ASSUME FigureInv, [Next]_vars PROVE FigureInv'
<1>1. CashInv'
  BY StepKeeps DEF Kept, FigureInv
<1>2. CASE \E d \in Desks : Begin(d)
  BY <1>1, <1>2, BeginGoesOn
<1>3. CASE \E d \in Desks : Continue(d)
  BY <1>1, <1>3, NumberGoesOn, CreateShiftFigures, CollectWriteFigures, LinkWriteFigures,
     RefundCreateFigures, ReadSalesGoesOn, ReadRefundsGoesOn, CloseWriteFigures,
     OverrideCreateGoesOn, DecideLockGoesOn, DecideWriteFigures, ReopenWriteFigures
     DEF Continue
<1>4. CASE Elsewhere
  BY <1>1, <1>4, OnlinePaidFigures, ApproveRefundFigures, RejectRefundFigures DEF Elsewhere
<1>5. CASE UNCHANGED vars
  <2>1. UNCHANGED <<shift, payment, refund, drawer, req>>
    BY <1>5 DEF vars
  <2> QED BY <1>1, <2>1 DEF FigureInv, Rows, DesksHoldRows, HoldsRows, Figures, InDrawer, Shifts,
                            CollectedIn, Collected, RefundsOf
<1> QED BY <1>2, <1>3, <1>4, <1>5 DEF Next

LEMMA FigureStart == Init => FigureInv
<1> SUFFICES ASSUME Init PROVE FigureInv
  OBVIOUS
<1>1. CashInv
  BY Start
<1>2. Rows
  BY IdleIsKnown DEF Init, Rows, Shifts
<1>3. DesksHoldRows
  BY IdleIsKnown DEF Init, DesksHoldRows
<1>4. Figures
  BY DEF Init, Figures, Shifts
<1> QED BY <1>1, <1>2, <1>3, <1>4 DEF FigureInv

-----------------------------------------------------------------------------
(* What is kept *)

\* What is in a drawer is its opening cash and what was collected into it, less the
\* approved refunds charged to it (markCashierPaymentPaid, approveRefund).
THEOREM FiguresKept == Spec => []FigureInv
<1>1. FigureInv /\ [Next]_vars => FigureInv'
  BY FigureStep
<1> QED BY <1>1, FigureStart, PTL DEF Spec

\* Every row and every request has its type, the figures of a closed shift included,
\* and every desk goes on with what is still so (the handlers of shift.service.ts).
THEOREM DrawersKept == Spec => []DrawerInv
<1>1. FigureInv => DrawerInv
  <2>1. CashInv => DesksHoldTheirOwn
    BY DEF CashInv, DesksInv, DeskInv, HoldsItsOwn, DesksHoldTheirOwn
  <2> QED BY <2>1 DEF FigureInv, CashInv, Shape, PaymentsInv, RefundsInv, OverridesInv, FromItsDrawer,
                      Rows, DrawerInv, TypeOK
<1> QED BY <1>1, FiguresKept, PTL

\* computeShiftTotals expects what is in the drawer less every cash payment that was
\* refunded in full.
THEOREM ExpectedCash == Spec => []ExpectedIsTheDrawerLessRefunded
<1>1. ASSUME FigureInv, NEW s \in Shifts
      PROVE  Expected(SalesOf(s), RefundsOf(s)) =
                 drawer[s] - MapThenSumSet(LAMBDA p : Due[p], CollectedIn(s) \ SalesOf(s))
  <2>1. PICK all \in SUBSET Payments : all = CollectedIn(s)
    BY DEF CollectedIn, Payments
  <2>2. PICK sales \in SUBSET all : sales = SalesOf(s)
    BY <2>1 DEF SalesOf
  <2>3. PICK taken \in Int : taken = SumOf(AmountsOf(refund), RefundsOf(s))
    BY <1>1, TotalsOf, RefundsAdd DEF FigureInv, Rows
  <2>4. Expected(sales, RefundsOf(s)) = Opening + SumOf(Due, sales) - taken
    BY <1>1, <2>1, <2>3, TotalsOf, ExpectedIs DEF FigureInv, Rows
  <2>5. drawer[s] = Opening + SumOf(Due, all) - taken
    BY <1>1, <2>1, <2>3 DEF FigureInv, Figures, InDrawer
  <2>6. SumOf(Due, all) = SumOf(Due, sales) + SumOf(Due, all \ sales)
    <3>1. IsFiniteSet(all) /\ Numbers(Due, all)
      BY PaymentsAdd
    <3> QED BY <3>1, SumOfParts
  <2>7. all \ sales \in SUBSET Payments /\ sales \in SUBSET Payments
    OBVIOUS
  <2>8. /\ SumOf(Due, all) \in Int /\ SumOf(Due, sales) \in Int /\ SumOf(Due, all \ sales) \in Int
    BY <2>7, PaymentsAdd
  <2>9. MapThenSumSet(LAMBDA p : Due[p], all \ sales) = SumOf(Due, all \ sales)
    BY <2>7, PaymentsAdd
  <2>10. Opening + SumOf(Due, sales) - taken = drawer[s] - SumOf(Due, all \ sales)
    BY <2>5, <2>6, <2>8, MoneyAssumption
  <2>11. Expected(sales, RefundsOf(s)) = drawer[s] - MapThenSumSet(LAMBDA p : Due[p], all \ sales)
    BY <2>4, <2>9, <2>10
  <2> QED BY <2>1, <2>2, <2>11
<1>2. FigureInv => ExpectedIsTheDrawerLessRefunded
  BY <1>1 DEF ExpectedIsTheDrawerLessRefunded
<1> QED BY <1>2, FiguresKept, PTL
=============================================================================
