CONSTANTS
    Requests = {r1}
    NoKey = NoKey
CHECK_DEADLOCK FALSE
SPECIFICATION Spec
INVARIANTS PairedPinInTrail
