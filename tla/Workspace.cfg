CONSTANTS
    SecondAreas = {"/?area=area-2"}
    MoreBrowsers = {}
    MaxTabOps = 3
    Panels = {"chat", "notes"}
    Terminals = {"t1", "t2"}
    Home = "chat"
    Areas <- MCAreas
    Capacity = 2
    MaxRevision = 3
    MaxEvents = 1
    Nothing = Nothing
    Views <- MCViews
    Shells <- MCShells
    NoShell = NoShell
    MaxWhole = 5
    MaxChunk = 3
SPECIFICATION WorkspaceSpec
INVARIANTS WorkspaceTypeOK   ClosedShellsEnd PaintsTheStream
PROPERTIES  DragsApplyToWhatWasShown
CHECK_DEADLOCK FALSE
