CONSTANTS
    o1 = o1
    o2 = o2
    Operators <- TwoOperators
    Shifts <- TwoShifts
    Assignments = {a1}
    Keys = {k1}
    Modes = {TRUE}
    Ticker = Ticker
    Pump = Pump
    NoShift = NoShift
    MaxFailures = 1
    MaxRestarts = 1
SPECIFICATION FairShiftSpec
INVARIANT OneActivePerStarter
PROPERTIES StopEndsEveryShift
