SPECIFICATION Spec
CONSTANTS
    None     = None
    Files    = {main, extra}
    Ledgers  = {L, M}
    Texts    = {"good", "syntax", "wrong"}
    Broken   = {"syntax"}
    Faulty   = {"wrong"}
    MaxEdits = 2
    Layouts  <- MCLayouts
    Disks    <- MCDisks
    Blame    <- MCBlame
CHECK_DEADLOCK FALSE
INVARIANTS
    ParseGate
