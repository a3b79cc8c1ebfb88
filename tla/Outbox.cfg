CONSTANTS
    Events = {e1, e2, e3}
    Handled = {e1, e2}
    Forwarders = {f1, f2}
    BatchSize = 2
    MaxAttempts = 2
    MaxCrashes = 1
SPECIFICATION FairOutboxSpec
INVARIANTS LostOnlyByCrash
PROPERTIES AtMostOnce CommittedIsDelivered
CHECK_DEADLOCK FALSE
