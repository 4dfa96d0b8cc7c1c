CONSTANTS
    p1 = p1  p2 = p2
    Nobody = Nobody
    Procs = {p1, p2}
    References = {1, 2}
    Actions = 1
    Chunks = {3, 4}
    Cursors = {1}
    MaxPages = 2
    MaxFaults = 1
SYMMETRY Symmetry
SPECIFICATION Spec
INVARIANTS
    DownloadVerifies
    SnapshotIsWhole
PROPERTIES
    NothingForgotten
CHECK_DEADLOCK FALSE
