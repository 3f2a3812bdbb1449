SPECIFICATION Spec
CONSTANTS
    p1 = p1
    p2 = p2
    Procs <- MCProcs
    Outside <- MCOutside
    MaxNotes = 4
    MaxBeside = 3
    MaxOutside = 1
    MaxHour = 1
SYMMETRY Symmetry
INVARIANT ReportedOnce
PROPERTY IdentityKept
CHECK_DEADLOCK FALSE
