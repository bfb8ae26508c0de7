CONSTANTS
    terminal = terminal
    agent = agent
    op = op
    Items <- OneItem
    Callers <- OnlyAgent
    Agents <- MCAgents
    Coordinator = Coordinator
    NoOne = NoOne
    Shifts <- OneShift
    Assignments = {}
    Keys = {}
    Modes = {TRUE}
    Operators <- MCOperators
    Ticker = Ticker
    Pump = Pump
    NoShift = NoShift
    MaxFailures = 1
    MaxRestarts = 0
    Cap = 2
    MaxSubtasks = 1
SPECIFICATION Spec
INVARIANTS SpentWithinCap
