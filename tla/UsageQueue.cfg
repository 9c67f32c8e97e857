\* Two completions and a speech event, a flush and a close, failing inserts.
CONSTANTS
    e1 = e1  e2 = e2  e3 = e3
    Event = {e1, e2, s1}
    Lane <- LaneOf
    Flusher = {f1, f2}
    Closing = {f2}
    Alarm = {a1, a2}
    BatchSize = 2
    MaxFailures = 2
SPECIFICATION FairSpec
\* every call may have returned
CHECK_DEADLOCK FALSE
INVARIANTS CountedOnce
PROPERTIES NoEventStranded
