CONSTANTS
    Null = Null
    MaxCount = 3
    Commands <- SameNameCommands
    Invocations <- MCInvocations
    Compiled <- MCCompiled
    Edited <- MCEdited
    Captures <- MCCaptures
    Baselines <- MCBaselines
    OurTool <- MCTool
    Unwritable <- MCUnwritable
    MaxEdits = 1
SPECIFICATION Spec
CHECK_DEADLOCK FALSE
INVARIANTS
    EveryInputListed
