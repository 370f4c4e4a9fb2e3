----------------------------- MODULE MCReservation -----------------------------
(* Reservation in quarters of an hour: a lunch and a coffee whose windows
   overlap on one table, and the lunch's guest, by phone and by account, without
   a table. *)
EXTENDS Reservation, TLC

Lunch == [day |-> 0, start |-> 44, duration |-> 6]
Coffee == [day |-> 0, start |-> 48, duration |-> 2]

Ask(table, window, account, phone, source, cash) ==
    [table |-> table, window |-> window, account |-> account, phone |-> phone,
     source |-> source, cash |-> cash]

MCAsks ==
    {Ask("t1", Lunch, NoAccount, "p1", "PUBLIC", TRUE),
     Ask("t1", Coffee, NoAccount, "p2", "PUBLIC", FALSE),
     Ask("t1", Coffee, NoAccount, "p2", "ADMIN", FALSE),
     Ask(NoTable, Lunch, "ana", "p1", "ADMIN", FALSE)}

ReservationSymmetry == Permutations(Slots)
===============================================================================
