CONSTANTS
    terminal = terminal
    agent = agent
    op = op
    Items <- OneItem
    Callers <- OnlyAgent
    Agents <- MCAgents
    Coordinator = Coordinator
    NoOne = NoOne
    Shifts <- OneShift
    Assignments = {}
    Keys = {}
    Modes = {TRUE, FALSE}
    Operators <- MCOperators
    Ticker = Ticker
    Pump = Pump
    NoShift = NoShift
    MaxFailures = 1
    MaxRestarts = 1
    Cap = 2
    MaxSubtasks = 1
    Calls = {"c1", "c2"}
    Shells = {"app", "web"}
    Desktop = {"app"}
    MaxReloads = 1
SPECIFICATION LiveSpec
PROPERTIES BrakeDrains WorkIsServed CrashRequeues WorksTheQueue WorksTheShifts
    AnswersStand EveryCallReturns
CHECK_DEADLOCK FALSE
