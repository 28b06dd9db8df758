SPECIFICATION BoardSpec
CONSTANTS
    NDeals = 2
    Stages = {"lead", "lost"}
    Reasoned = {1}
    Mine = {1}
    Views = {"active"}
    Moves = {m1, m2}
CHECK_DEADLOCK FALSE
PROPERTY AcknowledgedMovesPersist
