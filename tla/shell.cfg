SPECIFICATION ShellSpec
CONSTANTS
    Views <- MCViews
    MaxEntries = 3
    MaxApplies = 1
INVARIANTS
    ReloadKeepsView
    SetUpInAnyOrder
