SPECIFICATION Spec
CONSTANTS
    c1 = c1  c2 = c2  d1 = d1
    Client = {c1, c2}
    Driver = {d1}
    Name = {"null"}
    DeviceFlags <- MCDeviceFlags
    FileFlags <- MCFileFlags
    INITIAL_STATES = 2
    RequestPort <- MCRequestPort
    Mortal = {d1}
    Impatient = {c1}
    MaxCalls <- MCMaxCalls
    MaxTotal = 5
    Idle = Idle  Unused = Unused  Garbage = Garbage
INVARIANT FilesHaveDevices NextDescriptorFree  AnswerIsOwn StreamsWhileListened
CHECK_DEADLOCK FALSE
