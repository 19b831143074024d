CONSTANTS
    Attr = {a1, a2}
    Intervals <- MC_Intervals
    DefaultInterval <- MC_DefaultInterval
    Backoff <- MC_Backoff
    MarkTypeValid = TRUE
    StoreMayFail = TRUE
    MaxTime <- MC_MaxTime
    MaxCmds = 1
    MaxEvents = 1

SPECIFICATION Spec

SYMMETRY Symmetry

INVARIANT TypeOK
INVARIANT LastPollNotFuture
INVARIANT TimerIffWork
INVARIANT TimerSound
INVARIANT TimerNotLate

PROPERTY PollSpacing
PROPERTY NoEarlyPoll
