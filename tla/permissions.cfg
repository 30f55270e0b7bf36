\* A run of two tools, with commands, an ended conversation, a restart and failing storage.
SPECIFICATION Spec
CONSTANTS
    MaxMessages = 4
    MaxRequests = 1
    MaxTools = 2
    Changes = {"write"}
    AgentLifetimes = {"session", "once"}
    Operations = {"bash", "http"}
    Kinds <- Menu
    MaxSessions = 2
    MaxRestarts = 1
    Redelivery = TRUE
    MaxFaults = 1
INVARIANTS
    TypeOK
    ToolsWithinGrants
    CommandsCountOnce
PROPERTIES
    ReplyUnderOneRevision
\* Messages, requests and restarts are bounded.
CHECK_DEADLOCK FALSE
