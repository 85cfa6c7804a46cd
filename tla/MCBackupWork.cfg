CONSTANTS
    Requests = {"r1", "r2"}
    NoKey = NoKey
CHECK_DEADLOCK FALSE
SPECIFICATION OrderedSpec
INVARIANTS TypeOK StoreOutlivesWork NoLostWakeup PinIsRecorded DepositIsRecorded PairingHasKey
PROPERTIES ShutdownEnds
