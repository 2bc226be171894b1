\* Every request of MCSent, and at most two merges by the handler.
SPECIFICATION Spec
CONSTANTS
    Text <- MCText
    About <- MCAbout
    Printed <- MCPrinted
    Suffixed <- MCSuffixed
    Custom <- MCCustom
    Sent <- MCSent
    Overlays <- MCOverlays
    RuleSets <- MCRuleSets
    TokenText = "token"
    Methods <- MCMethods
    MaxMerges = 2
    None = None
INVARIANTS
    OneReadingOfTheBody
    InputIsWhatWasSent
    ControllerGetsTheText
CHECK_DEADLOCK FALSE
