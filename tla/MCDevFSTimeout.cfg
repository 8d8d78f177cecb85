SPECIFICATION FairSpec
CONSTANTS
    c1 = c1  c2 = c2  d1 = d1
    Client = {c1}
    Driver = {d1}
    Name = {"null"}
    DeviceFlags <- MCDeviceFlags
    FileFlags <- MCFileFlags
    INITIAL_STATES = 2
    RequestPort <- MCRequestPort
    Mortal = {d1}
    Impatient = {c1, d1}
    MaxCalls <- MCMaxCalls
    MaxTotal = 3
    Idle = Idle  Unused = Unused  Garbage = Garbage
PROPERTY CallsReturn
CHECK_DEADLOCK FALSE
