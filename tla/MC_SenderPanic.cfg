CONSTANTS
    Attr = {a1, a2}
    MaxLive = 2
    MaxWake = 2

SPECIFICATION Spec


INVARIANT SenderNeverPanics


