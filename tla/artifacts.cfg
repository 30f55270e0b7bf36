\* Two tasks, three images and a document, an expiry and a restart, and a removal or a control that fails.
SPECIFICATION Spec
CONSTANTS
    MaxImages = 3
    MaxTasks = 2
    MaxRevisions = 2
    MaxDocuments = 1
    PerReply = 2
    Quota = 2
    MaxLapses = 1
    MaxRestarts = 1
    MaxFaults = 1
INVARIANTS
    TypeOK
    PromisedIsReadable
    NoLeak
PROPERTIES
    SentAsReviewed
\* Tasks, restarts and days are bounded.
CHECK_DEADLOCK FALSE
