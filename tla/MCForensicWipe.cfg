\* Two presses, over one end of the process.
SPECIFICATION Spec
CONSTANTS
    w1 = w1
    w2 = w2
    Wipes <- Presses
    Holds <- SomeState
    Deaths = TRUE
    Restarts = 1
    Blind = 1
INVARIANTS WhatIsLeftIsReported GoneWhenQuiet
PROPERTIES NeverUnlinkedInTheClear FirstRunHasNoIdentity
SYMMETRY Symmetric
CHECK_DEADLOCK FALSE
