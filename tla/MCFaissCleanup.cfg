CONSTANTS
    i1 = i1
    i2 = i2
    Ids = {1, 2}
    Instances = {i1, i2}
    Recovery = Recovery
    Closed = Closed
    Missing = Missing
    Corrupt = Corrupt
    Absent = Absent
    Torn = Torn
    Idle = Idle
    MaxFaults = 0
SPECIFICATION Spec
PROPERTY OnlyStaleTemporariesDeleted
