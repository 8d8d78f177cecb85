SPECIFICATION Spec
CONSTANTS
    Threads = {t1, t2, t3, t4, t5}
    Null = Null
INVARIANTS HeadReachesAll
PROPERTY ImplementsFamily
SYMMETRY Interchangeable
