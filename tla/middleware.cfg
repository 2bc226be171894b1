\* Up to four groups and two routes, configured by any five calls.
SPECIFICATION Spec
CONSTANTS
    Name <- MCName
    Param = {"editor"}
    Plain = "-"
    Aliases <- MCAliases
    Bound <- MCBound
    Priority <- MCPriority
    Rules <- MCRules
    Lists <- MCLists
    GroupCalls <- MCGroupCalls
    MaxGroups = 4
    MaxRoutes = 2
    MaxCalls = 5
INVARIANTS
    ConfigurationsApart
    RunsWhatWasAsked
    InPriorityOrder
CHECK_DEADLOCK FALSE
