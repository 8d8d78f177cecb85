CONSTANTS
    c0 = c0  c1 = c1  h1 = h1  h2 = h2  m1 = m1
    CPU = {c0, c1}
    BootCpu = c0
    Line = {1, 2}
    Handler = {h1, h2}
    Main = {m1}
    Home <- MCHome
    Process <- MCProcess
    Nobody = Nobody  NoLine = NoLine  NoCpu = NoCpu
    MAX_FAST = 4
    MaxRaised <- MCMaxRaised
SPECIFICATION FairSpec
INVARIANT MaskFollowsHandlers  KernelKeepsRunning
PROPERTY InterruptsServed
CHECK_DEADLOCK FALSE
