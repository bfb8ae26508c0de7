CONSTANTS
    terminal = terminal
    agent = agent
    op = op
    Items <- TwoItems
    Callers <- OnlyAgent
    Agents <- MCAgents
    Coordinator = Coordinator
    NoOne = NoOne
    Shifts <- OneShift
    Assignments = {}
    Keys = {}
    Modes = {TRUE}
    Operators <- MCOperators
    Ticker = Ticker
    Pump = Pump
    NoShift = NoShift
    MaxFailures = 1
    MaxRestarts = 1
    Cap = 3
    MaxSubtasks = 1
SPECIFICATION Spec
INVARIANTS TypeOK WithinCap Serialized RunningIsAttended
