SPECIFICATION Spec
CONSTANTS
    SlotStart = 40
    SlotEnd = 54
    SlotStep = 4
    DefaultDuration = 6
    MinDuration = 1
    MaxDuration = 16
    DurationStep = 1
    MaxHorizon = 1
    MinutesPerDay = 96
    Slots = {s1, s2}
    Asks <- MCAsks
    Hold = 1
    Begin = 40
    Tick = 1
    End = 42
    MaxRows = 2
SYMMETRY ReservationSymmetry
CHECK_DEADLOCK FALSE
INVARIANT NeverDoubleBooked
