SPECIFICATION Spec
CONSTANTS
    Services <- MCServices
    ToolNames <- MCToolNames
    MaxStartups = 2
CHECK_DEADLOCK FALSE
INVARIANT ToolsExact
INVARIANT ConnectionsExact
