CONSTANTS
    Threads = {t1, t2}
    Vars = {1, 2}
    Frames = {f1, f2}
    NoFrame = NoFrame
    NoThread = NoThread
    FirstNewPage = 2
    MaxPages = 3
    MaxFetches = 4
SPECIFICATION Spec
CHECK_DEADLOCK FALSE
INVARIANTS PinsMatchGuards LatchesMatchGuards NoLostWrite
PROPERTIES FetchReturns
