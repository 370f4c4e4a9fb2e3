-------------------------- MODULE ReservationProofs --------------------------
(***************************************************************************)
(* A table is sold once, and what else Reservation keeps, for any number    *)
(* of reservations and concurrent requests, any hold and any slot grid.     *)
(*                                                                         *)
(* Every handler but the one that makes a reservation changes at most one   *)
(* row and its order (Effect).  The invariants are shown for Effect and     *)
(* for Reserve once, and every action is shown to be one of them.           *)
(***************************************************************************)
EXTENDS Reservation, TLAPS

-----------------------------------------------------------------------------
(* The inductive invariant *)

Paid(o) == o.cash = "PAID" \/ o.online = "PAID"

\* What a row with status st may have as its order.
Backed(i, st, o) ==
    /\ o.pay = "PAID" => Paid(o)
    /\ IsPublic(i) /\ st = "PENDING" => ~Paid(o)
    /\ IsPublic(i) /\ st \notin {"PENDING", "CANCELLED"} => Paid(o)
    /\ st = "CANCELLED" => /\ o.online # "PENDING"
                           /\ o.status \in {"NONE", "CANCELLED"} \/ Paid(o)

OrdersInv == \A i \in Rows : Backed(i, reservation[i].status, order[i])

\* What a request goes on with is still true of its row.
Sound(r) ==
    /\ r.step = "apply" =>
          /\ r.to \in ValidTransitions[r.from]
          /\ r.to = "CONFIRMED" /\ IsPublic(r.row) => RowPaid(r.row)
    /\ r.step \in {"intent", "counter"} => order[r.row].status # "NONE"

RequestsInv == \A s \in Slots : Sound(req[s])

TimesInv == \A i \in Rows : reservation[i].created <= now /\ InOpeningHours(Window(i))

\* Reservation i no longer stands in the way of j, which came later.
LetGo(i, j) ==
    \/ reservation[i].status \in {"CANCELLED", "NO_SHOW"}
    \/ /\ IsPublic(i)
       /\ reservation[j].created - reservation[i].created > Hold
       /\ reservation[i].status = "PENDING" \/ RowPaid(i)

\* The duplicate check finds reservation i when j is made.
Found(i, j) == Twins(i, j) /\ ~UnderAnotherAccount(i, j)

ClearInv == \A i, j \in Rows : i < j /\ (Clash(i, j) \/ Found(i, j)) => LetGo(i, j)

ReservationInv == TypeOK /\ OrdersInv /\ RequestsInv /\ TimesInv /\ ClearInv

-----------------------------------------------------------------------------
(* Windows *)

\* Minutes of two days are different.
LEMMA SameDay ==
    ASSUME NEW M \in Nat, NEW a \in Nat, NEW b \in Nat, NEW x \in Nat, NEW y \in Nat,
           x < M, y < M, a * M + x = b * M + y
    PROVE  a = b
<1>1. ASSUME NEW c \in Nat, NEW d \in Nat, NEW u \in Nat, NEW v \in Nat,
             u < M, v < M, c * M + u = d * M + v, c < d
      PROVE  FALSE
  <2> DEFINE k == d - c - 1
  <2>1. k \in Nat /\ d = c + 1 + k
    BY <1>1
  <2> HIDE DEF k
  <2>2. d * M = c * M + M + k * M
    BY <2>1
  <2>3. k * M \in Nat /\ c * M \in Nat
    BY <2>1
  <2> QED BY <1>1, <2>2, <2>3
<1>2. ~(a < b) /\ ~(b < a)
  BY <1>1
<1> QED BY <1>2

\* Two windows with a common minute overlap, since no window crosses midnight.
LEMMA CommonMinute ==
    ASSUME NEW v \in [day : Nat, start : Nat, duration : Nat],
           NEW w \in [day : Nat, start : Nat, duration : Nat],
           InOpeningHours(v), InOpeningHours(w), Minutes(v) \cap Minutes(w) # {}
    PROVE  Overlaps(v, w)
<1>1. PICK m \in v.start..(v.start + v.duration - 1),
           n \in w.start..(w.start + w.duration - 1) :
              v.day * MinutesPerDay + m = w.day * MinutesPerDay + n
  BY DEF Minutes
<1>2. /\ m \in Nat /\ n \in Nat /\ m < MinutesPerDay /\ n < MinutesPerDay
      /\ MinutesPerDay \in Nat
  BY <1>1, GridAssumption DEF InOpeningHours, IntervalEnd
<1>3. v.day = w.day
  BY <1>1, <1>2, SameDay
<1>4. m = n
  <2>1. v.day * MinutesPerDay \in Nat
    BY <1>2
  <2> QED BY <1>1, <1>2, <1>3, <2>1
<1> QED BY <1>1, <1>3, <1>4 DEF Overlaps, IntervalEnd

-----------------------------------------------------------------------------
(* One row and its order *)

\* The status of row i becomes st and its order o; both may be what they were.
Effect(i, st, o) ==
    /\ reservation' = [reservation EXCEPT ![i].status = st]
    /\ order' = [order EXCEPT ![i] = o]
    /\ st = reservation[i].status \/ st \in ValidTransitions[reservation[i].status]
    /\ Backed(i, st, o)
    /\ RowPaid(i) => Paid(o)
    /\ order[i].status # "NONE" => o.status # "NONE"

\* What no step takes away from a row.
Frame ==
    /\ Rows \subseteq Rows'
    /\ \A i \in Rows :
          /\ reservation'[i].ask = reservation[i].ask
          /\ reservation'[i].created = reservation[i].created
          /\ \/ reservation'[i].status = reservation[i].status
             \/ reservation'[i].status \in ValidTransitions[reservation[i].status]
          /\ RowPaid(i) => RowPaid(i)'
          /\ order[i].status # "NONE" => order'[i].status # "NONE"

\* A sequence with one place written.
LEMMA Written ==
    ASSUME NEW S, NEW q \in Seq(S), NEW i \in DOMAIN q, NEW x \in S
    PROVE  /\ [q EXCEPT ![i] = x] \in Seq(S)
           /\ Len([q EXCEPT ![i] = x]) = Len(q)
           /\ DOMAIN [q EXCEPT ![i] = x] = DOMAIN q
           /\ \A j \in DOMAIN q : [q EXCEPT ![i] = x][j] = IF j = i THEN x ELSE q[j]
OBVIOUS

\* The rows of a well-typed state.
LEMMA RowTypes ==
    ASSUME TypeOK
    PROVE  /\ Rows = 1..Len(reservation) /\ DOMAIN order = Rows
           /\ \A i \in Rows : reservation[i] \in ReservationRow /\ order[i] \in OrderRow
           /\ \A i \in Rows : Window(i) \in [day : Nat, start : Nat, duration : Nat]
<1>1. Rows = 1..Len(reservation) /\ DOMAIN order = Rows
  BY DEF TypeOK, Rows
<1>2. \A i \in Rows : reservation[i] \in ReservationRow /\ order[i] \in OrderRow
  BY <1>1 DEF TypeOK
<1>3. \A i \in Rows : Window(i) \in [day : Nat, start : Nat, duration : Nat]
  BY <1>2, ReservationAssumption DEF Window, ReservationRow
<1> QED BY <1>1, <1>2, <1>3

\* The rows and the orders after an effect.
LEMMA EffectRows ==
    ASSUME TypeOK, NEW i \in Rows, NEW st \in ReservationStatus, NEW o \in OrderRow,
           Effect(i, st, o)
    PROVE  /\ reservation' \in Seq(ReservationRow) /\ order' \in Seq(OrderRow)
           /\ Rows' = Rows /\ Len(order') = Len(reservation')
           /\ \A j \in Rows : /\ order'[j] = IF j = i THEN o ELSE order[j]
                              /\ reservation'[j].status =
                                    IF j = i THEN st ELSE reservation[j].status
                              /\ reservation'[j].ask = reservation[j].ask
                              /\ reservation'[j].created = reservation[j].created
<1> DEFINE row == [reservation[i] EXCEPT !.status = st]
<1>1. /\ reservation \in Seq(ReservationRow) /\ order \in Seq(OrderRow)
      /\ Len(order) = Len(reservation)
  BY DEF TypeOK
<1>2. row \in ReservationRow /\ row.status = st /\ row.ask = reservation[i].ask
      /\ row.created = reservation[i].created
  BY RowTypes DEF ReservationRow
<1>3. reservation' = [reservation EXCEPT ![i] = row]
  BY DEF Effect
<1> HIDE DEF row
<1>4. /\ reservation' \in Seq(ReservationRow) /\ Len(reservation') = Len(reservation)
      /\ DOMAIN reservation' = DOMAIN reservation
      /\ \A j \in Rows : reservation'[j] = IF j = i THEN row ELSE reservation[j]
  BY <1>1, <1>2, <1>3, Written DEF Rows
<1>5. /\ order' \in Seq(OrderRow) /\ Len(order') = Len(order)
      /\ \A j \in Rows : order'[j] = IF j = i THEN o ELSE order[j]
  BY <1>1, RowTypes, Written DEF Effect
<1> QED BY <1>1, <1>2, <1>4, <1>5 DEF Rows

\* An effect keeps what is said of the rows.
LEMMA EffectKeeps ==
    ASSUME TypeOK, OrdersInv, TimesInv, ClearInv, now' = now,
           NEW i \in Rows, NEW st \in ReservationStatus, NEW o \in OrderRow,
           Effect(i, st, o)
    PROVE  OrdersInv' /\ TimesInv' /\ ClearInv' /\ Frame
<1>0. /\ Rows' = Rows
      /\ \A j \in Rows : /\ order'[j] = IF j = i THEN o ELSE order[j]
                         /\ reservation'[j].status = IF j = i THEN st ELSE reservation[j].status
                         /\ reservation'[j].ask = reservation[j].ask
                         /\ reservation'[j].created = reservation[j].created
  BY EffectRows
<1>1. Frame
  <2>1. /\ st = reservation[i].status \/ st \in ValidTransitions[reservation[i].status]
        /\ RowPaid(i) => Paid(o)
        /\ order[i].status # "NONE" => o.status # "NONE"
    BY DEF Effect
  <2>2. ASSUME NEW j \in Rows
        PROVE  /\ reservation'[j].ask = reservation[j].ask
               /\ reservation'[j].created = reservation[j].created
               /\ \/ reservation'[j].status = reservation[j].status
                  \/ reservation'[j].status \in ValidTransitions[reservation[j].status]
               /\ RowPaid(j) => RowPaid(j)'
               /\ order[j].status # "NONE" => order'[j].status # "NONE"
    <3>1. CASE j = i
      BY <1>0, <2>1, <3>1 DEF RowPaid, Paid
    <3>2. CASE j # i
      BY <1>0, <3>2 DEF RowPaid
    <3> QED BY <3>1, <3>2
  <2> QED BY <1>0, <2>2 DEF Frame
<1>2. OrdersInv'
  <2>1. ASSUME NEW j \in Rows'
        PROVE  Backed(j, reservation[j].status, order[j])'
    <3>1. j \in Rows /\ IsPublic(j)' = IsPublic(j)
      BY <1>0 DEF IsPublic
    <3>2. CASE j = i
      <4>1. Backed(i, st, o)
        BY DEF Effect
      <4> QED BY <1>0, <3>1, <3>2, <4>1 DEF Backed
    <3>3. CASE j # i
      <4>1. Backed(j, reservation[j].status, order[j])
        BY <3>1 DEF OrdersInv
      <4> QED BY <1>0, <3>1, <3>3, <4>1 DEF Backed
    <3> QED BY <3>2, <3>3
  <2> QED BY <2>1 DEF OrdersInv
<1>3. TimesInv'
  BY <1>0 DEF TimesInv, Window
<1>4. ASSUME NEW j \in Rows', NEW k \in Rows', j < k, (Clash(j, k) \/ Found(j, k))'
      PROVE  LetGo(j, k)'
  <2>1. j \in Rows /\ k \in Rows
    BY <1>0, <1>4
  <2>2. Clash(j, k) \/ Found(j, k)
    BY <1>0, <1>4, <2>1 DEF Clash, Found, Twins, SamePerson, UnderAnotherAccount,
          Table, Account, Phone, Window
  <2>3. LetGo(j, k)
    BY <1>4, <2>1, <2>2 DEF ClearInv
  <2>4. CASE reservation[j].status \in {"CANCELLED", "NO_SHOW"}
    BY <1>1, <2>1, <2>4 DEF Frame, ValidTransitions, LetGo
  <2>5. CASE /\ IsPublic(j) /\ reservation[k].created - reservation[j].created > Hold
             /\ reservation[j].status = "PENDING" \/ RowPaid(j)
    <3>1. IsPublic(j)' /\ reservation'[k].created - reservation'[j].created > Hold
      BY <1>1, <2>1, <2>5 DEF Frame, IsPublic
    <3>2. CASE RowPaid(j)
      BY <1>1, <2>1, <3>1, <3>2 DEF Frame, LetGo
    <3>3. CASE reservation[j].status = "PENDING"
      <4>1. reservation'[j].status \in {"PENDING", "CONFIRMED", "CANCELLED"}
        BY <1>1, <2>1, <3>3 DEF Frame, ValidTransitions
      <4>2. reservation'[j].status = "CONFIRMED" => RowPaid(j)'
        BY <1>2, <1>4, <3>1 DEF OrdersInv, Backed, RowPaid, Paid
      <4> QED BY <3>1, <4>1, <4>2 DEF LetGo
    <3> QED BY <2>5, <3>2, <3>3
  <2> QED BY <2>3, <2>4, <2>5 DEF LetGo
<1>5. ClearInv'
  BY <1>4 DEF ClearInv
<1> QED BY <1>1, <1>2, <1>3, <1>5

\* A request that was sound remains so when no row loses anything.
LEMMA SoundStays ==
    ASSUME TypeOK, Frame, NEW r \in Request, r # Idle => r.row \in Rows, Sound(r)
    PROVE  Sound(r)' /\ (r # Idle => r.row \in Rows')
<1>1. r # Idle => r.row \in Rows'
  BY DEF Frame
<1>2. r.step \in {"apply", "intent", "counter"} => r # Idle
  BY DEF Idle
<1>3. r.step \in {"apply", "intent", "counter"} =>
         /\ IsPublic(r.row)' = IsPublic(r.row)
         /\ RowPaid(r.row) => RowPaid(r.row)'
         /\ order[r.row].status # "NONE" => order'[r.row].status # "NONE"
  BY <1>2 DEF Frame, IsPublic
<1> QED BY <1>1, <1>3 DEF Sound

\* A request that goes on with something sound keeps the requests sound.
LEMMA RequestsKept ==
    ASSUME TypeOK, RequestsInv, Frame, NEW s \in Slots, NEW r \in Request,
           Goes(s, r), r # Idle => r.row \in Rows, Sound(r)
    PROVE  /\ RequestsInv' /\ req' \in [Slots -> Request]
           /\ \A t \in Slots : req'[t] # Idle => req'[t].row \in Rows'
<1>1. req' = [req EXCEPT ![s] = r] /\ req \in [Slots -> Request]
  BY DEF Goes, TypeOK
<1>2. ASSUME NEW t \in Slots
      PROVE  Sound(req[t])' /\ (req'[t] # Idle => req'[t].row \in Rows')
  <2>1. PICK q \in Request : q = (IF t = s THEN r ELSE req[t])
    BY <1>1
  <2>2. (q # Idle => q.row \in Rows) /\ Sound(q)
    BY <2>1 DEF RequestsInv, TypeOK
  <2>3. Sound(q)' /\ (q # Idle => q.row \in Rows')
    BY <2>2, SoundStays
  <2>4. req'[t] = q
    BY <1>1, <2>1
  <2> QED BY <2>3, <2>4 DEF Sound
<1> QED BY <1>1, <1>2 DEF RequestsInv

\* The idle request is sound, and every other one knows its row.
LEMMA IdleSound == Idle \in Request /\ Sound(Idle)
BY DEF Idle, Request, Sound

LEMMA Busy ==
    ASSUME TypeOK, NEW s \in Slots, req[s].step # "idle"
    PROVE  req[s] \in Request /\ req[s] # Idle /\ req[s].row \in Rows
BY DEF TypeOK, Idle

\* A step in which the requests stay.
LEMMA RequestsStay ==
    ASSUME TypeOK, RequestsInv, Frame, req' = req
    PROVE  /\ RequestsInv' /\ req' \in [Slots -> Request]
           /\ \A t \in Slots : req'[t] # Idle => req'[t].row \in Rows'
<1>1. CASE Slots = {}
  BY <1>1 DEF RequestsInv, TypeOK
<1>2. CASE Slots # {}
  <2>1. PICK s \in Slots : TRUE
    BY <1>2
  <2>2. PICK r \in Request : r = req[s]
    BY DEF TypeOK
  <2>3. Goes(s, r) /\ Sound(r) /\ (r # Idle => r.row \in Rows)
    BY <2>2 DEF Goes, TypeOK, RequestsInv
  <2> QED BY <2>3, RequestsKept
<1> QED BY <1>1, <1>2

\* A step that changes one row and its order, and ends its request if it has one.
LEMMA OneRow ==
    ASSUME ReservationInv, now' = now,
           req' = req \/ \E s \in Slots : Goes(s, Idle),
           NEW i \in Rows, NEW st \in ReservationStatus, NEW o \in OrderRow,
           Effect(i, st, o)
    PROVE  ReservationInv' /\ Frame
<1> USE DEF ReservationInv
<1>1. OrdersInv' /\ TimesInv' /\ ClearInv' /\ Frame
  BY EffectKeeps
<1>2. /\ RequestsInv' /\ req' \in [Slots -> Request]
      /\ \A t \in Slots : req'[t] # Idle => req'[t].row \in Rows'
  BY <1>1, RequestsStay, RequestsKept, IdleSound
<1>3. TypeOK'
  BY <1>2, EffectRows DEF TypeOK
<1> QED BY <1>1, <1>2, <1>3

\* A step that leaves the rows alone.
LEMMA NoRow ==
    ASSUME ReservationInv, UNCHANGED <<now, reservation, order>>,
           NEW s \in Slots, NEW r \in Request, Goes(s, r),
           r # Idle => r.row \in Rows, Sound(r)
    PROVE  ReservationInv' /\ Frame
<1> USE DEF ReservationInv
<1>1. Frame
  BY DEF Frame, Rows, RowPaid
<1>2. OrdersInv' /\ TimesInv' /\ ClearInv'
  BY DEF OrdersInv, TimesInv, ClearInv, Rows, Backed, Paid, Window, IsPublic, LetGo,
         RowPaid, Clash, Found, Twins, SamePerson, UnderAnotherAccount, Table, Account, Phone
<1>3. /\ RequestsInv' /\ req' \in [Slots -> Request]
      /\ \A t \in Slots : req'[t] # Idle => req'[t].row \in Rows'
  BY <1>1, RequestsKept
<1>4. TypeOK'
  BY <1>3 DEF TypeOK
<1> QED BY <1>1, <1>2, <1>3, <1>4

-----------------------------------------------------------------------------
(* A new reservation *)

\* A sequence with one element more.
LEMMA Longer ==
    ASSUME NEW S, NEW q \in Seq(S), NEW x \in S
    PROVE  /\ Append(q, x) \in Seq(S) /\ Len(Append(q, x)) = Len(q) + 1
           /\ DOMAIN Append(q, x) = DOMAIN q \cup {Len(q) + 1}
           /\ \A j \in DOMAIN q : Append(q, x)[j] = q[j] /\ j < Len(q) + 1
           /\ Append(q, x)[Len(q) + 1] = x
OBVIOUS

LEMMA ReserveKeeps ==
    ASSUME ReservationInv, NEW ask \in Asks, Reserve(ask)
    PROVE  ReservationInv' /\ Frame
<1> USE DEF ReservationInv
<1> DEFINE n == Len(reservation) + 1
           row == [status |-> "PENDING", ask |-> ask, created |-> now]
           new == IF ask.source = "PUBLIC" THEN NewOrder(ask.cash) ELSE NoOrder
<1>1. /\ reservation \in Seq(ReservationRow) /\ order \in Seq(OrderRow)
      /\ Len(order) = Len(reservation) /\ Rows = 1..Len(reservation)
      /\ now \in Nat /\ DOMAIN order = Rows /\ Rows = DOMAIN reservation
  BY RowTypes DEF TypeOK, Rows
<1>2. row \in ReservationRow /\ new \in OrderRow
  BY <1>1, ReservationAssumption
     DEF ReservationRow, ReservationStatus, OrderRow, NewOrder, NoOrder
<1>3. row.status = "PENDING" /\ row.ask = ask /\ row.created = now
  OBVIOUS
<1>4. /\ ask.window \in [day : Nat, start : Nat, duration : Nat]
      /\ InOpeningHours(ask.window)
  BY ReservationAssumption DEF Reserve, ValidWindow
<1>5. ~Paid(new) /\ new.pay # "PAID"
  BY DEF Paid, NewOrder, NoOrder
<1>6. /\ reservation' = Append(reservation, row) /\ order' = Append(order, new)
      /\ UNCHANGED <<now, req>>
  BY DEF Reserve
<1> HIDE DEF row, new
<1>7. /\ reservation' \in Seq(ReservationRow) /\ Len(reservation') = n
      /\ Rows' = Rows \cup {n} /\ reservation'[n] = row
      /\ \A j \in Rows : reservation'[j] = reservation[j] /\ j < n
  BY <1>1, <1>2, <1>6, Longer DEF Rows
<1>8. /\ order' \in Seq(OrderRow) /\ Len(order') = n /\ order'[n] = new
      /\ \A j \in Rows : order'[j] = order[j]
  BY <1>1, <1>2, <1>6, Longer
<1>9. n \in Int /\ n \notin Rows
  BY <1>1
<1> HIDE DEF n
<1>10. Frame
  BY <1>7, <1>8 DEF Frame, RowPaid
<1>11. OrdersInv'
  <2>1. ASSUME NEW j \in Rows'
        PROVE  Backed(j, reservation[j].status, order[j])'
    <3>1. CASE j = n
      BY <1>3, <1>5, <1>7, <1>8, <3>1 DEF Backed, Paid
    <3>2. CASE j # n
      <4>1. j \in Rows /\ IsPublic(j)' = IsPublic(j)
        BY <1>7, <3>2 DEF IsPublic
      <4>2. Backed(j, reservation[j].status, order[j])
        BY <4>1 DEF OrdersInv
      <4> QED BY <1>7, <1>8, <4>1, <4>2 DEF Backed
    <3> QED BY <3>1, <3>2
  <2> QED BY <2>1 DEF OrdersInv
<1>12. TimesInv'
  BY <1>1, <1>3, <1>4, <1>6, <1>7 DEF TimesInv, Window
<1>13. ASSUME NEW j \in Rows', NEW k \in Rows', j < k, (Clash(j, k) \/ Found(j, k))'
       PROVE  LetGo(j, k)'
  <2>1. j \in Rows /\ (k \in Rows \/ k = n)
    BY <1>1, <1>7, <1>9, <1>13
  <2>2. CASE k \in Rows
    <3>1. Clash(j, k) \/ Found(j, k)
      BY <1>7, <1>13, <2>1, <2>2 DEF Clash, Found, Twins, SamePerson, UnderAnotherAccount,
          Table, Account, Phone, Window
    <3>2. LetGo(j, k)
      BY <1>13, <2>1, <2>2, <3>1 DEF ClearInv
    <3> QED BY <1>7, <1>8, <2>1, <2>2, <3>2 DEF LetGo, IsPublic, RowPaid
  <2>3. CASE k = n
    <3>1. Window(j) \in [day : Nat, start : Nat, duration : Nat] /\ InOpeningHours(Window(j))
      BY <2>1, RowTypes DEF TimesInv
    <3>2. \/ /\ Table(j) = ask.table /\ ask.table # NoTable
             /\ Minutes(Window(j)) \cap Minutes(ask.window) # {}
          \/ IsGuest(j, ask) /\ SameStart(Window(j), ask.window)
      BY <1>3, <1>7, <1>13, <2>1, <2>3 DEF IsGuest, Clash, Found, Twins, SamePerson, UnderAnotherAccount,
          Table, Account, Phone, Window
    <3>3. ~Holding(j)
      <4>1. CASE /\ Table(j) = ask.table /\ ask.table # NoTable
                 /\ Minutes(Window(j)) \cap Minutes(ask.window) # {}
        <5>1. Overlaps(Window(j), ask.window)
          BY <1>4, <3>1, <4>1, CommonMinute
        <5> QED BY <2>1, <4>1, <5>1 DEF Reserve, TableTaken
      <4>2. CASE IsGuest(j, ask) /\ SameStart(Window(j), ask.window)
        BY <2>1, <4>2 DEF Reserve, BookedAlready
      <4> QED BY <3>2, <4>1, <4>2
    <3>4. reservation[j] \in ReservationRow
      BY <2>1, RowTypes
    <3>5. \/ reservation[j].status \in {"CANCELLED", "NO_SHOW"}
          \/ /\ IsPublic(j) /\ reservation[j].status = "PENDING"
             /\ now - reservation[j].created > Hold
      BY <1>1, <3>3, <3>4, ReservationAssumption
         DEF Holding, ReservationRow, ReservationStatus, HoldingStatuses
    <3> QED BY <1>3, <1>7, <2>1, <2>3, <3>5 DEF LetGo, IsPublic
  <2> QED BY <2>1, <2>2, <2>3
<1>14. ClearInv'
  BY <1>13 DEF ClearInv
<1>15. TypeOK' /\ RequestsInv'
  <2>1. /\ RequestsInv' /\ req' \in [Slots -> Request]
        /\ \A t \in Slots : req'[t] # Idle => req'[t].row \in Rows'
    BY <1>6, <1>10, RequestsStay
  <2> QED BY <1>1, <1>6, <1>7, <1>8, <2>1 DEF TypeOK
<1> QED BY <1>10, <1>11, <1>12, <1>14, <1>15

-----------------------------------------------------------------------------
(* Transitions *)

LEMMA ReadsKeeps ==
    ASSUME ReservationInv, NEW s \in Slots, NEW i \in Rows, NEW to, Reads(s, i, to)
    PROVE  ReservationInv' /\ Frame
<1> DEFINE r == [step |-> "apply", row |-> i, from |-> reservation[i].status, to |-> to]
<1>1. reservation[i] \in ReservationRow /\ i \in Nat
  BY RowTypes DEF ReservationInv
<1>2. to \in ValidTransitions[reservation[i].status] /\ to \in ReservationStatus
  BY <1>1 DEF Reads, ReservationRow, ReservationStatus, ValidTransitions
<1>3. r \in Request
  BY <1>1, <1>2 DEF Request, ReservationRow
<1>4. to = "CONFIRMED" /\ IsPublic(i) => RowPaid(i)
  BY DEF Reads, Confirmable, ReservationInv, OrdersInv, Backed, Paid, RowPaid
<1>5. Sound(r)
  BY <1>2, <1>4 DEF Sound
<1>6. Goes(s, r) /\ UNCHANGED <<now, reservation, order>> /\ r.row = i
  BY DEF Reads
<1> HIDE DEF r
<1> QED BY <1>3, <1>5, <1>6, NoRow

\* Writing to a row what is there is no change.
LEMMA NoChange ==
    ASSUME TypeOK, NEW i \in Rows
    PROVE  /\ reservation = [reservation EXCEPT ![i].status = reservation[i].status]
           /\ order = [order EXCEPT ![i] = order[i]]
BY RowTypes DEF TypeOK, Rows, ReservationRow

LEMMA ApplyKeeps ==
    ASSUME ReservationInv, NEW s \in Slots, Apply(s)
    PROVE  ReservationInv' /\ Frame
<1> USE DEF ReservationInv
<1>1. PICK r \in Request : /\ r = req[s] /\ r.step = "apply" /\ r.row \in Rows
                           /\ r.to \in ReservationStatus
                           /\ Sound(r)
  BY Busy DEF Apply, At, Request, Idle, RequestsInv
<1> DEFINE i == r.row
           o == IF r.to = "CANCELLED" THEN Cancelled(order[i]) ELSE order[i]
<1>2. order[i] \in OrderRow /\ reservation[i] \in ReservationRow
  BY <1>1, RowTypes
<1>3. /\ o \in OrderRow /\ (Paid(o) <=> Paid(order[i])) /\ o.pay = order[i].pay
      /\ order[i].status # "NONE" => o.status # "NONE"
  BY <1>2 DEF OrderRow, Cancelled, CancelledUnlessPaid, WithoutIntent, Paid
<1>4. CASE Matches(i, r.from)
  <2>1. r.to \in ValidTransitions[reservation[i].status]
    BY <1>1, <1>4 DEF Sound, Matches
  <2>2. Backed(i, reservation[i].status, order[i])
    BY <1>1 DEF OrdersInv
  <2>3. r.to = "CONFIRMED" /\ IsPublic(i) => Paid(order[i])
    BY <1>1 DEF Sound, RowPaid, Paid
  <2>4. r.to = "CANCELLED" => /\ o.online # "PENDING"
                              /\ o.status \in {"NONE", "CANCELLED"} \/ Paid(o)
    BY <1>2, <1>3, <2>2
       DEF OrderRow, Cancelled, CancelledUnlessPaid, WithoutIntent, Backed
  <2>5. /\ r.to # "PENDING"
        /\ r.to \notin {"CONFIRMED", "CANCELLED"} =>
              reservation[i].status \notin {"PENDING", "CANCELLED"}
    BY <1>2, <2>1 DEF ReservationRow, ReservationStatus, ValidTransitions
  <2>6. Backed(i, r.to, o)
    BY <1>3, <2>2, <2>3, <2>4, <2>5 DEF Backed
  <2>7. /\ reservation' = [reservation EXCEPT ![i].status = r.to]
        /\ order' = [order EXCEPT ![i] = o]
    BY <1>1, <1>4, NoChange DEF Apply
  <2>8. Effect(i, r.to, o)
    BY <1>3, <2>1, <2>6, <2>7 DEF Effect, RowPaid, Paid
  <2> QED BY <1>1, <1>3, <2>8, OneRow DEF Apply
<1>5. CASE ~Matches(i, r.from)
  BY <1>1, <1>5, NoRow, IdleSound DEF Apply
<1> QED BY <1>4, <1>5

LEMMA ExpireKeeps ==
    ASSUME ReservationInv, NEW s \in Slots, Expire(s)
    PROVE  ReservationInv' /\ Frame
<1>1. PICK i \in Rows : i = req[s].row
  BY Busy DEF ReservationInv, Expire, At
<1>2. CASE Reads(s, i, "CANCELLED")
  BY <1>2, ReadsKeeps
<1>3. CASE Goes(s, Idle) /\ UNCHANGED <<now, reservation, order>>
  BY <1>3, NoRow, IdleSound
<1> QED BY <1>1, <1>2, <1>3 DEF Expire

-----------------------------------------------------------------------------
(* Payment *)

\* A request that may go on, whatever it is going to do.
LEMMA StartKeeps ==
    ASSUME ReservationInv, UNCHANGED <<now, reservation, order>>,
           NEW s \in Slots, NEW i \in Rows,
           \/ Goes(s, [step |-> "expire", row |-> i])
           \/ \E step \in {"intent", "counter"} :
                 order[i].status # "NONE" /\ Goes(s, [step |-> step, row |-> i])
           \/ \E advance \in BOOLEAN :
                 Goes(s, [step |-> "collect", row |-> i, advance |-> advance])
    PROVE  ReservationInv' /\ Frame
<1>1. i \in Nat
  BY RowTypes DEF ReservationInv
<1>2. PICK r \in Request : Goes(s, r) /\ r.row = i /\ Sound(r)
  <2>1. CASE Goes(s, [step |-> "expire", row |-> i])
    BY <1>1, <2>1 DEF Request, Sound
  <2>2. CASE \E step \in {"intent", "counter"} :
                order[i].status # "NONE" /\ Goes(s, [step |-> step, row |-> i])
    BY <1>1, <2>2 DEF Request, Sound
  <2>3. CASE \E advance \in BOOLEAN :
                Goes(s, [step |-> "collect", row |-> i, advance |-> advance])
    BY <1>1, <2>3 DEF Request, Sound
  <2> QED BY <2>1, <2>2, <2>3
<1> QED BY <1>2, NoRow

LEMMA StartsKeep ==
    ASSUME ReservationInv, NEW s \in Slots, NEW i \in Rows,
           \/ PayOnline(s, i)
           \/ \E step \in {"intent", "counter"} : PayOrder(s, i, step)
           \/ \E form \in BOOLEAN : StartCollect(s, i, form)
    PROVE  ReservationInv' /\ Frame
<1>1. CASE PayOnline(s, i)
  BY <1>1, StartKeeps DEF PayOnline
<1>2. CASE \E step \in {"intent", "counter"} : PayOrder(s, i, step)
  BY <1>2, StartKeeps DEF PayOrder
<1>3. ASSUME NEW form \in BOOLEAN, StartCollect(s, i, form)
      PROVE  ReservationInv' /\ Frame
  <2>1. PICK a \in BOOLEAN : a = ((form \/ order[i].online # "NONE")
                              /\ order[i].status = "PENDING")
    OBVIOUS
  <2>2. CASE Overdue(i)
    BY <1>3, <2>2, StartKeeps DEF StartCollect
  <2>3. CASE ~Overdue(i)
    BY <1>3, <2>1, <2>3, StartKeeps DEF StartCollect
  <2> QED BY <2>2, <2>3
<1> QED BY <1>1, <1>2, <1>3

\* An unpaid order whose reservation is not waiting for the counter stays as
\* open as it was when it gets another way to pay.
LEMMA OfferKeeps ==
    ASSUME ReservationInv, now' = now, NEW s \in Slots, Goes(s, Idle),
           reservation' = reservation,
           NEW i \in Rows, Payable(i), order[i].status # "NONE",
           NEW o \in OrderRow, order' = [order EXCEPT ![i] = o],
           ~Paid(o), o.status = order[i].status,
           o.pay = "PAID" => order[i].pay = "PAID"
    PROVE  ReservationInv' /\ Frame
<1>1. Backed(i, reservation[i].status, order[i]) /\ ~Paid(order[i])
  BY DEF ReservationInv, OrdersInv, Payable, RowPaid, Paid
<1>2. reservation[i].status \in ReservationStatus
  BY RowTypes DEF ReservationInv, ReservationRow
<1>3. Backed(i, reservation[i].status, o)
  BY <1>1 DEF Backed, Payable
<1>4. Effect(i, reservation[i].status, o)
  BY <1>1, <1>3, NoChange DEF ReservationInv, Effect, RowPaid, Paid
<1> QED BY <1>2, <1>4, OneRow

LEMMA CreateIntentKeeps ==
    ASSUME ReservationInv, NEW s \in Slots, CreateIntent(s)
    PROVE  ReservationInv' /\ Frame
<1>1. PICK i \in Rows : i = req[s].row /\ order[i].status # "NONE"
  BY Busy DEF ReservationInv, RequestsInv, Sound, CreateIntent, At
<1>2. order[i] \in OrderRow
  BY RowTypes DEF ReservationInv
<1> DEFINE o == [order[i] EXCEPT !.cash = IF @ = "UNPAID" THEN "CANCELLED" ELSE @]
           p == Mirror([o EXCEPT !.online = "PENDING"], "PENDING")
<1>3. /\ o \in OrderRow /\ p \in OrderRow
      /\ o.status = order[i].status /\ p.status = order[i].status
      /\ o.pay = order[i].pay /\ (p.pay = "PAID" => order[i].pay = "PAID")
      /\ Payable(i) => ~Paid(o) /\ ~Paid(p)
  BY <1>2 DEF OrderRow, Mirror, Paid, Payable, RowPaid
<1>4. /\ Goes(s, Idle) /\ now' = now /\ reservation' = reservation
      /\ \/ Payable(i) /\ order' = [order EXCEPT ![i] = p]
         \/ Payable(i) /\ order' = [order EXCEPT ![i] = o]
         \/ order' = order
  BY <1>1 DEF CreateIntent
<1> HIDE DEF o, p
<1>5. CASE Payable(i) /\ order' = [order EXCEPT ![i] = p]
  BY <1>1, <1>3, <1>4, <1>5, OfferKeeps
<1>6. CASE Payable(i) /\ order' = [order EXCEPT ![i] = o]
  BY <1>1, <1>3, <1>4, <1>6, OfferKeeps
<1>7. CASE order' = order
  BY <1>4, <1>7, NoRow, IdleSound
<1> QED BY <1>4, <1>5, <1>6, <1>7

LEMMA ChooseCashKeeps ==
    ASSUME ReservationInv, NEW s \in Slots, ChooseCash(s)
    PROVE  ReservationInv' /\ Frame
<1>1. PICK i \in Rows : i = req[s].row /\ order[i].status # "NONE"
  BY Busy DEF ReservationInv, RequestsInv, Sound, ChooseCash, At
<1>2. order[i] \in OrderRow
  BY RowTypes DEF ReservationInv
<1> DEFINE o == [order[i] EXCEPT !.online = IF @ \in {"PENDING", "FAILED", "REFUSED"}
                                            THEN "CANCELLED" ELSE @]
           p == Mirror([o EXCEPT !.cash = "UNPAID"], "UNPAID")
<1>3. /\ p \in OrderRow
      /\ p.status = order[i].status /\ (p.pay = "PAID" => order[i].pay = "PAID")
      /\ Payable(i) => ~Paid(p)
  BY <1>2 DEF OrderRow, Mirror, Paid, Payable, RowPaid
<1>4. /\ Goes(s, Idle) /\ now' = now /\ reservation' = reservation
      /\ \/ Payable(i) /\ order' = [order EXCEPT ![i] = p]
         \/ order' = order
  BY <1>1 DEF ChooseCash
<1> HIDE DEF p
<1>5. CASE Payable(i) /\ order' = [order EXCEPT ![i] = p]
  BY <1>1, <1>3, <1>4, <1>5, OfferKeeps
<1>6. CASE order' = order
  BY <1>4, <1>6, NoRow, IdleSound
<1> QED BY <1>4, <1>5, <1>6

LEMMA GatewayFailsKeeps ==
    ASSUME ReservationInv, NEW i \in Rows, GatewayFails(i)
    PROVE  ReservationInv' /\ Frame
<1> DEFINE o == [order[i] EXCEPT !.online = "REFUSED",
                                 !.pay = IF @ = "PENDING" THEN "FAILED" ELSE @]
<1>1. /\ order[i] \in OrderRow /\ reservation[i].status \in ReservationStatus
      /\ Backed(i, reservation[i].status, order[i])
  BY RowTypes DEF ReservationInv, OrdersInv, ReservationRow
<1>2. /\ o \in OrderRow /\ o.status = order[i].status /\ o.online # "PENDING"
      /\ (o.pay = "PAID" => order[i].pay = "PAID") /\ (Paid(o) <=> Paid(order[i]))
  BY <1>1 DEF OrderRow, Paid, GatewayFails
<1>3. order' = [order EXCEPT ![i] = o]
  BY DEF GatewayFails
<1> HIDE DEF o
<1>4. Effect(i, reservation[i].status, o)
  BY <1>1, <1>2, <1>3, NoChange
     DEF ReservationInv, GatewayFails, Effect, Backed, RowPaid, Paid
<1> QED BY <1>1, <1>2, <1>4, OneRow DEF GatewayFails

\* A row is paid, and its reservation with it.
LEMMA PaidKeeps ==
    ASSUME ReservationInv, now' = now,
           req' = req \/ \E s \in Slots : Goes(s, Idle),
           NEW i \in Rows, NEW o \in OrderRow,
           reservation' = ConfirmFromPaid(i), order' = [order EXCEPT ![i] = o],
           Paid(o), o.online # "PENDING" \/ o.online = order[i].online,
           order[i].status # "NONE" => o.status # "NONE"
    PROVE  ReservationInv' /\ Frame
<1> DEFINE st == IF reservation[i].status = "PENDING" THEN "CONFIRMED"
                 ELSE reservation[i].status
<1>1. /\ st \in ReservationStatus
      /\ st = reservation[i].status \/ st \in ValidTransitions[reservation[i].status]
      /\ st # "PENDING" /\ (st = "CANCELLED" => reservation[i].status = "CANCELLED")
  BY RowTypes DEF ReservationInv, ReservationRow, ReservationStatus, ValidTransitions
<1>2. Backed(i, reservation[i].status, order[i])
  BY DEF ReservationInv, OrdersInv
<1>3. Backed(i, st, o)
  BY <1>1, <1>2 DEF Backed
<1>4. reservation' = [reservation EXCEPT ![i].status = st]
  BY NoChange DEF ReservationInv, ConfirmFromPaid
<1> HIDE DEF st
<1>5. Effect(i, st, o)
  BY <1>1, <1>3, <1>4 DEF Effect
<1> QED BY <1>1, <1>5, OneRow

LEMMA CollectKeeps ==
    ASSUME ReservationInv, NEW s \in Slots, Collect(s)
    PROVE  ReservationInv' /\ Frame
<1>1. PICK i \in Rows : i = req[s].row
  BY Busy DEF ReservationInv, Collect, At
<1>2. order[i] \in OrderRow
  BY RowTypes DEF ReservationInv
<1>3. CASE order[i].cash = "UNPAID"
  <2> DEFINE o == [order[i] EXCEPT !.cash = "PAID", !.pay = "PAID",
                                   !.status = IF req[s].advance THEN "PROCESSING" ELSE @]
  <2>1. /\ o \in OrderRow /\ Paid(o) /\ o.online = order[i].online
        /\ order[i].status # "NONE" => o.status # "NONE"
    BY <1>2 DEF OrderRow, Paid
  <2>2. order' = [order EXCEPT ![i] = o] /\ reservation' = ConfirmFromPaid(i)
    BY <1>1, <1>3 DEF Collect
  <2>3. Goes(s, Idle) /\ now' = now
    BY DEF Collect
  <2> HIDE DEF o
  <2> QED BY <2>1, <2>2, <2>3, PaidKeeps
<1>4. CASE order[i].cash # "UNPAID"
  BY <1>1, <1>4, NoRow, IdleSound DEF Collect
<1> QED BY <1>3, <1>4

LEMMA WebhookKeeps ==
    ASSUME ReservationInv, NEW i \in Rows, NEW result \in {"PAID", "FAILED"},
           Webhook(i, result)
    PROVE  ReservationInv' /\ Frame
<1> DEFINE o == [order[i] EXCEPT !.online = result,
                                 !.pay = IF @ = order[i].online THEN result ELSE @]
<1>1. /\ order[i] \in OrderRow /\ reservation[i].status \in ReservationStatus
      /\ Backed(i, reservation[i].status, order[i])
  BY RowTypes DEF ReservationInv, OrdersInv, ReservationRow
<1>2. /\ o \in OrderRow /\ o.status = order[i].status /\ o.online = result
      /\ o.cash = order[i].cash
      /\ o.pay = "PAID" => order[i].pay = "PAID" \/ result = "PAID"
  BY <1>1 DEF OrderRow
<1>3. order' = [order EXCEPT ![i] = o] /\ UNCHANGED <<now, req>>
  BY DEF Webhook
<1>4. order[i].online # "PAID"
  BY DEF Webhook
<1> HIDE DEF o
<1>5. CASE result = "PAID"
  <2>1. reservation' = ConfirmFromPaid(i)
    BY <1>5 DEF Webhook
  <2> QED BY <1>2, <1>3, <1>5, <2>1, PaidKeeps DEF Paid
<1>6. CASE result = "FAILED"
  <2>1. reservation' = reservation
    BY <1>6 DEF Webhook
  <2>2. Paid(o) <=> Paid(order[i])
    BY <1>2, <1>4, <1>6 DEF Paid
  <2>3. Backed(i, reservation[i].status, o)
    BY <1>1, <1>2, <1>6, <2>2 DEF Backed
  <2>4. Effect(i, reservation[i].status, o)
    BY <1>2, <1>3, <2>1, <2>2, <2>3, NoChange DEF ReservationInv, Effect, RowPaid, Paid
  <2> QED BY <1>1, <1>2, <1>3, <2>4, OneRow
<1> QED BY <1>5, <1>6

-----------------------------------------------------------------------------
(* Every step *)

LEMMA ClockKeeps ==
    ASSUME ReservationInv, Clock
    PROVE  ReservationInv' /\ Frame
<1> USE DEF ReservationInv
<1>1. now' \in Nat /\ now <= now' /\ UNCHANGED <<reservation, order, req>>
  BY ReservationAssumption DEF Clock, TypeOK
<1>2. Frame
  BY <1>1 DEF Frame, Rows, RowPaid
<1>3. TypeOK' /\ RequestsInv'
  BY <1>1, <1>2, RequestsStay DEF TypeOK
<1>4. OrdersInv' /\ ClearInv'
  BY <1>1 DEF OrdersInv, ClearInv, Rows, Backed, Paid, Window, IsPublic, LetGo,
              RowPaid, Clash, Found, Twins, SamePerson, UnderAnotherAccount, Table, Account, Phone
<1>5. TimesInv'
  BY <1>1, RowTypes DEF TimesInv, Rows, Window, TypeOK, ReservationRow
<1> QED BY <1>2, <1>3, <1>4, <1>5

LEMMA StepKeeps ==
    ASSUME ReservationInv, [Next]_vars
    PROVE  ReservationInv' /\ Frame
<1>1. CASE UNCHANGED vars
  <2>1. UNCHANGED <<now, reservation, order, req>>
    BY <1>1 DEF vars
  <2>2. Frame
    BY <2>1 DEF Frame, Rows, RowPaid
  <2>3. ReservationInv'
    BY <2>1, <2>2, RequestsStay
       DEF ReservationInv, TypeOK, OrdersInv, TimesInv, ClearInv, Rows, Backed, Paid, Window,
           IsPublic, LetGo, RowPaid, Clash, Found, Twins, SamePerson, UnderAnotherAccount, Table, Account, Phone
  <2> QED BY <2>2, <2>3
<1>2. CASE Clock
  BY <1>2, ClockKeeps
<1>3. ASSUME NEW ask \in Asks, Reserve(ask)
      PROVE  ReservationInv' /\ Frame
  BY <1>3, ReserveKeeps
<1>4. ASSUME NEW s \in Slots,
             Apply(s) \/ Expire(s) \/ CreateIntent(s) \/ ChooseCash(s) \/ Collect(s)
      PROVE  ReservationInv' /\ Frame
  BY <1>4, ApplyKeeps, ExpireKeeps, CreateIntentKeeps, ChooseCashKeeps, CollectKeeps
<1>5. ASSUME NEW s \in Slots, NEW i \in Rows,
             NEW to \in ReservationStatus, Transition(s, i, to)
      PROVE  ReservationInv' /\ Frame
  BY <1>5, ReadsKeeps DEF Transition
<1>6. ASSUME NEW s \in Slots, NEW i \in Rows,
             \/ PayOnline(s, i)
             \/ \E step \in {"intent", "counter"} : PayOrder(s, i, step)
             \/ \E form \in BOOLEAN : StartCollect(s, i, form)
      PROVE  ReservationInv' /\ Frame
  BY <1>6, StartsKeep
<1>7. ASSUME NEW i \in Rows,
             GatewayFails(i) \/ \E result \in {"PAID", "FAILED"} : Webhook(i, result)
      PROVE  ReservationInv' /\ Frame
  BY <1>7, GatewayFailsKeeps, WebhookKeeps
<1> QED BY <1>1, <1>2, <1>3, <1>4, <1>5, <1>6, <1>7 DEF Next

LEMMA Start == Init => ReservationInv
<1> SUFFICES ASSUME Init PROVE ReservationInv
  OBVIOUS
<1>1. Rows = {} /\ TypeOK
  BY ReservationAssumption DEF Init, Rows, TypeOK, Request
<1> QED BY <1>1, IdleSound
        DEF Init, ReservationInv, OrdersInv, RequestsInv, TimesInv, ClearInv

-----------------------------------------------------------------------------
(* What is kept *)

\* The inductive invariant: every row backed by its order, every request going
\* on with something that is still true, and no earlier reservation in the way
\* of a later one (createReservation, the transitions, the payment handlers).
THEOREM ReservationKept == Spec => []ReservationInv
<1>1. ReservationInv /\ [Next]_vars => ReservationInv'
  BY StepKeeps
<1> QED BY <1>1, Start, PTL DEF Spec

\* A reservation that let go and still holds was paid too late.
LEMMA LateOrGone ==
    ASSUME ReservationInv, NEW i \in Rows, NEW j \in Rows, LetGo(i, j), Holding(i)
    PROVE  PaidTooLate(i, j)
<1>1. /\ reservation[i].created \in Nat /\ reservation[j].created \in Nat
      /\ now \in Nat /\ reservation[j].created <= now
  BY RowTypes DEF ReservationInv, TimesInv, ReservationRow, TypeOK
<1> QED BY <1>1, ReservationAssumption DEF LetGo, PaidTooLate, Holding, HoldingStatuses

\* Two reservations hold a table for a common minute only when the earlier is
\* a guest's that was paid after its hold (the overlap gate of createReservation).
THEOREM TableSoldOnce == Spec => []TableIsSoldOnce
<1>1. ReservationInv => TableIsSoldOnce
  BY LateOrGone DEF ReservationInv, ClearInv, TableIsSoldOnce
<1> QED BY <1>1, ReservationKept, PTL

\* One guest, by account or by phone number, holds one reservation at a time, but for
\* late payments and for logging in to another account (the duplicate check of
\* createReservation).
THEOREM GuestBookedOnce == Spec => []GuestBooksOnce
<1>1. ReservationInv => GuestBooksOnce
  BY LateOrGone DEF ReservationInv, ClearInv, Found, GuestBooksOnce
<1> QED BY <1>1, ReservationKept, PTL

\* A guest's reservation is past PENDING exactly with a PAID row (updateStatus,
\* confirmFromPaidOrderInTransaction and its callers).
THEOREM ConfirmedOncePaid == Spec => []ConfirmedWithItsPayment
<1>1. ReservationInv => ConfirmedWithItsPayment
  BY DEF ReservationInv, OrdersInv, Backed, Paid, RowPaid, ConfirmedWithItsPayment
<1> QED BY <1>1, ReservationKept, PTL

\* A cancelled reservation leaves no live intent and no open unpaid order
\* (cancelReservation's transaction against createPayment under the order's lock).
THEOREM NothingLeftOpen == Spec => []CancelledLeavesNothingOpen
<1>1. ReservationInv => CancelledLeavesNothingOpen
  BY DEF ReservationInv, OrdersInv, Backed, Paid, RowPaid, CancelledLeavesNothingOpen
<1> QED BY <1>1, ReservationKept, PTL

\* Every status change is one of the matrix (the conditional updates).
THEOREM OnlyValidMoves == Spec => MovesAreValid
<1>1. ReservationInv /\ [Next]_vars =>
        [\A i \in Rows : reservation'[i].status # reservation[i].status =>
            reservation'[i].status \in ValidTransitions[reservation[i].status]]_vars
  BY StepKeeps DEF Frame
<1> QED BY <1>1, ReservationKept, PTL DEF Spec, MovesAreValid

-----------------------------------------------------------------------------
(* The grid of the page and the rules of the server *)

\* For every day within the horizon, every valid duration and every clock, the starts
\* the page offers are all the starts, among all whole minutes, that the server takes:
\* neither list is longer than the other (buildSlots, validateReservationWindow).
THEOREM OfferedExactlyAccepted ==
    ASSUME NEW time, NEW day, day - Today(time) <= MaxHorizon,
           NEW duration \in Int, ValidDuration(duration)
    PROVE  BuildSlots(day, duration, time) =
             {start \in Int :
                ValidWindow([day |-> day, start |-> start, duration |-> duration], time)}
<1>1. SlotStart \in Nat /\ SlotEnd \in Nat /\ duration > 0
  <2>1. MinDuration \in Nat \ {0} /\ MinDuration <= duration
    BY GridAssumption DEF ValidDuration
  <2> QED BY <2>1, GridAssumption
<1>2. ASSUME NEW start \in Int
      PROVE  InOpeningHours([day |-> day, start |-> start, duration |-> duration])
                <=> start <= SlotEnd - duration
  BY <1>1 DEF InOpeningHours, IntervalEnd
<1> QED BY <1>1, <1>2 DEF BuildSlots, ValidWindow

\* The same of the starts a little before and after the opening hours, at every moment
\* of every run.
THEOREM OffersAreAccepted == Spec => []OfferedIsAccepted
<1>1. TypeOK => OfferedIsAccepted
  <2> SUFFICES ASSUME now \in Nat,
                      NEW day \in Today(now)..(Today(now) + MaxHorizon),
                      NEW start \in Int
               PROVE  ValidWindow([day |-> day, start |-> start,
                                   duration |-> DefaultDuration], now)
                        => start \in (SlotStart - 1)..(SlotEnd + 1)
    <3>1. ASSUME now \in Nat, NEW day \in Today(now)..(Today(now) + MaxHorizon)
          PROVE  /\ day - Today(now) <= MaxHorizon
                 /\ DefaultDuration \in Int /\ ValidDuration(DefaultDuration)
      <4>1. Today(now) \in Int /\ MaxHorizon \in Int
        BY <3>1, GridAssumption DEF Today
      <4>2. DefaultDuration \in Int /\ ValidDuration(DefaultDuration)
        BY GridAssumption DEF ValidDuration
      <4> QED BY <4>1, <4>2
    <3> QED BY <3>1, OfferedExactlyAccepted DEF OfferedIsAccepted, TypeOK
  <2>1. SlotStart \in Nat /\ SlotEnd \in Nat
    BY GridAssumption
  <2> QED BY <2>1 DEF ValidWindow, InOpeningHours
<1>2. ReservationInv => TypeOK
  BY DEF ReservationInv
<1> QED BY <1>1, <1>2, ReservationKept, PTL
=============================================================================
