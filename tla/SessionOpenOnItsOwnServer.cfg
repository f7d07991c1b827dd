CONSTANTS
    None = None
    Keys = {k1}
    Networks = {n1, n2}
    Calls = {c1}
    Forgets = {}
    SilentStore = FALSE
    Jobs = {}
    JobKinds = {"sync"}
SPECIFICATION Spec
INVARIANT OpenOnItsOwnServer
CHECK_DEADLOCK FALSE
