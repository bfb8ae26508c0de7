CONSTANTS
    Messages <- ThreeMessages
    Kinds = {"one_shot", "duplex"}
    None = None
    MaxCrashes = 1
SPECIFICATION Spec
INVARIANTS ResumesOnlyUnsent
