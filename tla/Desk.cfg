CONSTANTS
    FileCap = 1
    MaxFiles = 2
    MaxSends = 3
    MaxWire = 1
    MaxReopens = 1
    Voices = {"Ava", "Gone"}
    Installed = {"Ava"}
    SystemVoice = SystemVoice
    MaxLines = 3
    MaxStops = 2
    Notes = {"a", "b"}
    MaxEdits = 2
    MaxClicks = 3
    MaxSubmits = 1
    NoteTexts <- MCNoteTexts
    MaxPresses = 2
SPECIFICATION DeskSpec
INVARIANTS DeskTypeOK  SpokenAsAsked SaveSettles ViewIsTheText
PROPERTY CommandsKeepTheWords
CHECK_DEADLOCK FALSE
