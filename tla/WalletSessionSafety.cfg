CONSTANTS
    None = None
    Keys = {k1, k2}
    Networks = {n1}
    Calls = {c1, c2}
    Forgets = {f1}
    SilentStore = FALSE
    Jobs = {j1}
    JobKinds = {"sync"}
SPECIFICATION Spec
SYMMETRY Symmetry
INVARIANTS
    QueueMovesOn
    HandlesAccountedFor
    LastRememberWins
    RecordingKeyIsKept
    RememberedIsRecord
PROPERTY NewestWinsSpec
CHECK_DEADLOCK FALSE
