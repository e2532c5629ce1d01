SPECIFICATION FairSpec
CONSTANTS
    FriendCount = 2
    Threads = {t1, t2}
    MaxSenders = 1
    MaxFrames = 1
    Cameras = {2}
    MaxResets = 2
INVARIANTS RightFriend  CountersKept
PROPERTIES FreedOnlyByStop PassEnds
CHECK_DEADLOCK FALSE
