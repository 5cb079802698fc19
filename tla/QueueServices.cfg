SPECIFICATION QueuesSpec
CONSTANTS
    slot1 = slot1
    slot2 = slot2
    atSubmit = atSubmit
    atDoi = atDoi
    atBackfill = atBackfill
    FollowSlots = {slot1, slot2}
    MaxFollowAttempts = 2
    MaxFollowStalls = 1
    MaxFollowFaults = 1
    MaxFollowRequests = 2
    PushSlots = {slot1, slot2}
    MaxPushAttempts = 2
    MaxPushStalls = 1
    MaxPushFaults = 3
    MaxRelinks = 2
    FinalizeSlots = {slot1, slot2}
    FinalizeJobs = {atSubmit, atDoi, atBackfill}
    SubmitJob = atSubmit
    DoiJob = atDoi
    MaxFinAttempts = 2
    MaxFinStalls = 1
    MaxFinFaults = 1
    MaxRevisions = 2
    MaxEvents = 6
    Mentions = {2, 3, 5}
    CursorMarks = {2, 4}
    LookBack = 1
    MaxStreamFaults = 3
INVARIANTS
    QueuesTypeOK
    FollowsAgree
    TootsPaidFor
    FinalHolds
    NoMentionSkipped
PROPERTIES
    QueueJobsEnd
    MentionsArrive
CHECK_DEADLOCK FALSE
