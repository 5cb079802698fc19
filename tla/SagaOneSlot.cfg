SPECIFICATION FairSpec
CONSTANTS
    p1 = p1  w1 = w1  w2 = w2  m1 = m1  m2 = m2  r1 = r1  cs = cs
    Submit = Submit
    Accept = Accept
    Papers = {p1}
    Workers = {w1}
    Decisions = {m1}
    Retries = {r1}
    Subjects = {cs}
    SubjectOf <- OneSubject
    PlcPapers = {p1}
    MainTexPapers = {}
    MaxAttempts = 2
    MaxStalls = 1
    MaxFaults = 1
INVARIANTS
    DuplicatesNeedFaults
PROPERTIES
    UriIsStable
    JobsEnd
    ApprovedIsPublished
CHECK_DEADLOCK FALSE
