SPECIFICATION Spec
CONSTANTS
    a = a  b = b  x = x  c0 = c0  c1 = c1  p1 = p1  p2 = p2
    Cpus = {c0, c1}
    Threads = {a, b, x}
    Home <- MCHome
    Process <- MCProcess
    Size = 3
    Word = 65536
    Free = Free  Idle = Idle  Nobody = Nobody
INVARIANTS HolderRuns NoSleepingCpu 
CHECK_DEADLOCK FALSE
