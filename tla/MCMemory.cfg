SPECIFICATION SpaceSpec
CONSTANTS
    Process = {p1, p2}
    Id = {r1}
    Frame = {f1, f2, f3}
    Device = device
    Zero = zero
    None = none
    Promiscuous = {TRUE}
    Slots = 2
    MaxUsage = 2
    MaxAlloc = 1
SYMMETRY Symmetry
INVARIANT UsersMapped   
CHECK_DEADLOCK FALSE
