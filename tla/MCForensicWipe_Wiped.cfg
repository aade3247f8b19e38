\* Two presses whose tasks may die.
SPECIFICATION Spec
CONSTANTS
    w1 = w1
    w2 = w2
    Wipes <- Presses
    Holds <- SomeState
    Deaths = TRUE
    Restarts = 0
    Blind = 1
INVARIANT WipedMeansGone
CHECK_DEADLOCK FALSE
