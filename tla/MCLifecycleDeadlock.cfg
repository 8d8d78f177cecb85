SPECIFICATION Spec
CONSTANTS
    a1 = a1  a2 = a2  b1 = b1  n1 = n1  pa = pa  pb = pb  pn = pn  c0 = c0  c1 = c1
    Pids = {pa, pb, pn}
    Threads = {a1, a2, b1, n1}
    Process <- MCProcess
    Cpus = {c0, c1}
    Cpu <- MCCpu
    Initial = {a1, b1}
    Calls <- MCCalls
    MaxGC = 2
    Nobody = Nobody
INVARIANT CollectorNotBlocked
CHECK_DEADLOCK FALSE
