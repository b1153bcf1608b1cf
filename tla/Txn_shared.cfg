SPECIFICATION Spec
CONSTANTS
    Process = {p1, p2}
    Target <- OneTarget
    Outer <- NoOuter
    Path <- MCPath
    Under <- MCUnder
    Content = {c1, c2}
    Plans <- TwoPlans
    Interference = {"shared_target"}
    Absent = Absent
    None = None
    Dir = Dir
    Truncated = Truncated
    Foreign = Foreign
    out = out
    inner = inner
    d = d
    f = f
    g = g
    c1 = c1
    c2 = c2
INVARIANT WorkspaceComplete
