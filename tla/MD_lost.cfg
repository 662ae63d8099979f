SPECIFICATION Spec
CONSTANTS
    a1 = a1
    a2 = a2
    w1 = w1
    w2 = w2
    Assets = {a1, a2}
    Queued <- NewestFirst
    Workers = {w1, w2}
    Photos <- MCPhotos
    MaxAttempts = 2
    MaxFailures = 2
    MaxCrashes = 1
CHECK_DEADLOCK FALSE
INVARIANT
    JobNeverLost
