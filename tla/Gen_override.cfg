SPECIFICATION Spec
CONSTANTS
    Path <- MCPath
    Under <- MCUnder
    Content = {c1, c2, c3}
    None = None
    Dir = Dir
    Requests <- OverrideRequests
    Rank <- MCRank
    Expand <- MCExpand
    Unsafe = Unsafe
    Unreadable = Unreadable
    Unexpandable = bad
    RecordFile = r
    Record = Record
    UserContent = UserContent
    app = app
    f = f
    d = d
    e = e
    r = r
    c1 = c1
    c2 = c2
    c3 = c3
    bad = bad
PROPERTY NoFalseDrift
