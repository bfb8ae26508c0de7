CONSTANTS
    Pages = {"p"}
    HomePage = "home"
    Sessions <- MCSessions
    MaxLive = 1
    MaxTabs = 3
    MaxChromeOps = 3
    Words = {"ab", "cd"}
    Browse = "/"
    Short = "a"
    MaxBarOps = 5
    MaxReplies = 2
    MaxPatches = 5
    MaxSyncs = 2
SPECIFICATION BrowserSpec
INVARIANTS BrowserTypeOK   
PROPERTY RowFitsTheFields
CHECK_DEADLOCK FALSE
