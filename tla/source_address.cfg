SPECIFICATION Spec
CONSTANTS
    None = None
    Bad = Bad
    Failed = Failed
    Empty = Empty
    Delegated = {p1, p2, p3}
    Lease <- MCLease
    Lease4 <- MCLease4
    Others <- MCOthers
    Interface = "wan"
    Options <- MCOptions
    MaxFaults = 2
SYMMETRY Symmetric
INVARIANTS TypeOK NoStaleAddress
PROPERTIES SourceIsBound
