SPECIFICATION Spec
CONSTANTS
    None     = None
    Files    = {main, extra}
    Ledgers  = {L, M}
    Texts    = {"good", "syntax", "wrong"}
    Broken   = {"syntax"}
    Faulty   = {"wrong"}
    MaxEdits = 3
    Layouts  <- MCLayouts
    Disks    <- MCDisks
    Blame    <- MCBlame
CHECK_DEADLOCK FALSE
SYMMETRY MCSymmetry
INVARIANTS
    TypeOK
    NoLostWakeup
    OneLiveBuild
    FreshSnapshot
PROPERTIES
    SnapshotMonotonic
