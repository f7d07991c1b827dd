CONSTANTS
    None = None
    Keys = {k1}
    Networks = {n1}
    Calls = {c1, c2}
    Forgets = {f1}
    SilentStore = FALSE
    Jobs = {}
    JobKinds = {"sync"}
SPECIFICATION FairSpec
PROPERTY EveryPressIsAnswered
CHECK_DEADLOCK FALSE
