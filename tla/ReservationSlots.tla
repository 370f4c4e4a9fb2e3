--------------------------- MODULE ReservationSlots ---------------------------
(***************************************************************************)
(* The slot grid of a day of reservations, in minutes from midnight, and    *)
(* the clock the server reads it by.                                        *)
(***************************************************************************)
EXTENDS Integers

CONSTANTS
    SlotStart, SlotEnd,     \* opening and closing time
    SlotStep,               \* distance between selectable starts
    DefaultDuration, MinDuration, MaxDuration, DurationStep,
    MaxHorizon,             \* days ahead a booking may be made
    MinutesPerDay

ASSUME GridAssumption ==
    /\ SlotStart \in Nat /\ SlotEnd \in Nat /\ MaxHorizon \in Nat
    /\ SlotEnd <= MinutesPerDay
    /\ SlotStep \in Nat \ {0} /\ DurationStep \in Nat \ {0}
    /\ MinutesPerDay \in Nat \ {0}
    /\ MinDuration \in Nat \ {0} /\ MaxDuration \in Nat
    /\ DefaultDuration \in MinDuration..MaxDuration
    /\ DefaultDuration % DurationStep = 0

\* A window is a day, a start within it, and a duration.
IntervalEnd(w) == w.start + w.duration

\* Half-open, so that windows that touch do not overlap.
Overlaps(v, w) ==
    /\ v.day = w.day
    /\ v.duration > 0 /\ w.duration > 0
    /\ v.start < IntervalEnd(w) /\ IntervalEnd(v) > w.start

SameStart(v, w) == v.day = w.day /\ v.start = w.start

\* Now is a number of minutes since the midnight that began day 0.
Today(now) == now \div MinutesPerDay

IsPastSlot(day, start, now) ==
    \/ day < Today(now)
    \/ day = Today(now) /\ start <= now % MinutesPerDay

ValidDuration(d) ==
    d >= MinDuration /\ d <= MaxDuration /\ d % DurationStep = 0

EndsBeforeClosing(w) == w.start < SlotEnd /\ IntervalEnd(w) < SlotEnd

InOpeningHours(w) == w.start < SlotEnd /\ IntervalEnd(w) <= SlotEnd

\* validateReservationWindow
ValidWindow(w, now) ==
    /\ w.day - Today(now) <= MaxHorizon
    /\ ~IsPastSlot(w.day, w.start, now)
    /\ ValidDuration(w.duration)
    /\ w.start >= SlotStart /\ (w.start - SlotStart) % SlotStep = 0
    /\ InOpeningHours(w)

\* buildSlots: the starts the page offers for a day.
BuildSlots(day, duration, now) ==
    {start \in SlotStart..(SlotEnd - duration) :
        (start - SlotStart) % SlotStep = 0 /\ ~IsPastSlot(day, start, now)}
===============================================================================
