SPECIFICATION Spec
CONSTANTS
    Own = 2
    Incoming = 1
    Backlog = 3
    SeekBack = 1
    SeekSkip = 0
    MaxSent = 1
    MaxLinks = 3
    MaxStarts = 1
    Clears = TRUE
INVARIANTS LogTellsTruth NothingLeftBehind NoDeadlock
PROPERTIES ConversationSpec
CHECK_DEADLOCK FALSE
