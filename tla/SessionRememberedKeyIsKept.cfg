CONSTANTS
    None = None
    Keys = {k1}
    Networks = {n1}
    Calls = {c1, c2}
    Forgets = {}
    SilentStore = FALSE
    Jobs = {}
    JobKinds = {"sync"}
SPECIFICATION Spec
INVARIANT RememberedKeyIsKept
CHECK_DEADLOCK FALSE
