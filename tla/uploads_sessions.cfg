SPECIFICATION Spec
CONSTANTS
    Sessions = {s1, s2, s3}
    Requests = {q1, q2}
    Reaper = reaper
    None = None
    Kinds = {"patch", "finish", "cancel", "idle"}
    Slots = 2
    PartSize = 2
    MaxBlob = 2
    MaxUnits = 3
    MaxCalls = 4
    MaxFaults = 1
    FaultPoints <- AllPoints
SYMMETRY Symmetry
INVARIANT TypeOK
INVARIANT WholeUnlessTorn
INVARIANT OversizeNeverRecorded
INVARIANT NoOrphanUpload
