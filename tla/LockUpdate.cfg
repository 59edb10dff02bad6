SPECIFICATION Spec
CONSTANTS
    Revision = {"old", "new"}
    Pins <- McPins
    Pool = 2
INVARIANTS
    LockComplete
PROPERTY
    UpdateEnds
