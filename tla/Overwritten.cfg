CONSTANTS
    Notes = {"a", "b"}
    MaxEdits = 3
    MaxClicks = 2
    MaxSubmits = 1
SPECIFICATION NoteSpec
PROPERTY OutsideEditsSurvive
CHECK_DEADLOCK FALSE
