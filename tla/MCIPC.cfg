CONSTANTS
  Threads = {t1, t2}
  NoTid = NoTid
  MaxPorts = 2
  Blocks = {b1, b2, b3}
  Pulses = {u}
  MaxPulses = 1
SPECIFICATION OneCpuSpec
SYMMETRY Interchangeable
INVARIANTS HintsOwned BodiesAllocated  PortListsExact 
 
CHECK_DEADLOCK FALSE
