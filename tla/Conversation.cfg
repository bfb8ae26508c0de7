CONSTANTS
    Messages <- ThreeMessages
    Kinds = {"one_shot", "duplex"}
    None = None
    MaxCrashes = 1
SPECIFICATION FairSpec
INVARIANTS ChatTypeOK OneBusyProcess NothingIsLost RunsOnce LedgerKeepsOrder
PROPERTIES TurnsEndForCause QueueMoves
