SPECIFICATION MCSpec
CONSTANTS
    Tids = {t1, t2}
    Objs = {10, 20}
    ObjSize = 2
    FieldOff = 1
    AllocSizes = {2}
    MaxTrace = 4
    TypeNames = {"T"}
    Pcs = {1}
    Bases = {0, 5}
    SnapSlots = 3
    Interval = 1
    MaxRecording = 3
    LineSize = 4
    MaxDepth = 1
    Structs <- MCStructs
    Writers = {"t1", "t2"}
    Offsets = {0, 2, 4, 6, 8, 10}
    Annotations <- MCAnnotations
    MaxWrites = 3
CHECK_DEADLOCK FALSE
SYMMETRY TidSymmetry
INVARIANTS
    VerdictsExact
    
    LintAgrees
