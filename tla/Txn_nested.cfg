SPECIFICATION Spec
CONSTANTS
    Process = {p1, p2}
    Target <- MCTarget
    Outer <- MCOuter
    Path <- MCPath
    Under <- MCUnder
    Content = {c1, c2}
    Plans <- LongPlans
    Interference = {"nested_runs"}
    Absent = Absent
    None = None
    Dir = Dir
    Truncated = Truncated
    Foreign = Foreign
    out = out
    inner = inner
    d = d
    f = f
    g = g
    c1 = c1
    c2 = c2
SYMMETRY Symmetric
INVARIANTS
    TypeOK
    WorkspaceComplete
    RecordDescribesDisk
PROPERTY LandsAtOnce
