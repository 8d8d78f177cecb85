------------------------------ MODULE MCDevFS ------------------------------
(* Two clients, one driver and two slots for requests *)
EXTENDS DevFS

CONSTANTS c1, c2, d1

MCDeviceFlags == {{}, {"open", "read", "stream"}}
MCFileFlags == {{"read", "stream"}}
MCRequestPort == [p \in Process |-> IF p = c1 THEN 0 ELSE 1]
MCMaxCalls == [p \in Process |-> IF p = c1 THEN 4 ELSE 2]
=============================================================================
