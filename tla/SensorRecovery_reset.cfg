SPECIFICATION Spec
CONSTANTS
    Addrs = {a1}
    Objs = {o1, o2}
    None = None
    Unknown = Unknown
    MaxAir = 2
    Searches = {}
    Faults = TRUE
SYMMETRY Interchangeable
INVARIANTS
    MeasuringIsTracked
    
    LateStopHarmless
    
