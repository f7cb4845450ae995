CONSTANTS
    Null = Null
    MaxCount = 3
    Commands <- MCCommands
    Invocations <- MCInvocations
    Compiled <- MCCompiled
    Edited <- MCEdited
    Captures <- MCCaptures
    Baselines <- MCBaselines
    OurTool <- MCTool
    Unwritable <- MCUnwritable
    MaxEdits = 2
SPECIFICATION Spec
CHECK_DEADLOCK FALSE
INVARIANTS
    TypeOK
    RebuildAgrees
    AlteredIsRefused
    PassIsEarned
    ExportsTrue
