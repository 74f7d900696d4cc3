\* The four commands over two hosts, with edits, failures and crashes.
SPECIFICATION Spec
CONSTANTS
    Hosts = {"codex", "drenyra-pi"}
    HomeHost = "drenyra-pi"
    Versions = {1, 2}
    SkillsOf <- MCSkillsOf
    PinsOf <- MCPinsOf
    MaxClock = 3
    MaxFaults = 1
    MaxEdits = 1
INVARIANT RollbackRestores
INVARIANT UpgradeCanBeUndone
PROPERTY ForeignNeverTouched
PROPERTY AllOrNothing
PROPERTY HealthySurvivesTransition
