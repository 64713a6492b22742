SPECIFICATION Spec
CONSTANTS
    Limit = 10
    Fallback <- NoName
    Lower <- LowerCase
    Digit <- Digits
    KeySafe = {"main", "other", "metacall", "requirements", "package", "source-index.json"}
    ConfigNames = {"metacall", "metacall-py-0", "metacall-py-1", "metacall-node"}
    DependencyNames = {"package", "requirements"}
    Skipped = {"node_modules"}
    Letters <- LanguageNames
    Eligible = {"py", "node"}
    PlannedConfig <- PlannedConfigs
    SchemaVersion = "1"
    MaxConfigMapBytes = 8
    MaxInputFiles = 8
    NoUnits = NoUnits
    Req = {"r1", "r2"}
    Inputs <- SandboxInputs
    None = None
    MaxCrashes = 0
    MaxHeld = 0
PROPERTIES
    Sandbox
CHECK_DEADLOCK FALSE
