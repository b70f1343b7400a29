CONSTANTS
    MaxChanges = 2
    MaxTroubles = 1
    MaxBacklog = 1
    RingSize = 2
SPECIFICATION Spec
INVARIANTS
    MemoryIsApplied
    TranscriptCurrent
    DeletedStaysGone
PROPERTY StreamRecovers
CHECK_DEADLOCK FALSE
