SPECIFICATION FairSpec
CONSTANTS
    Sessions = {s1, s2}
    Requests = {q1, q2}
    Reaper = reaper
    None = None
    Kinds = {"patch", "finish", "cancel", "idle"}
    Slots = 1
    PartSize = 2
    MaxBlob = 0
    MaxUnits = 2
    MaxCalls = 3
    MaxFaults = 1
    FaultPoints <- AllPoints
PROPERTY SessionsEndOrStick
