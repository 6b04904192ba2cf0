SPECIFICATION Spec
CONSTANTS
    ui = ui
    hb = hb
    Callers = {ui, hb}
    Heartbeat = hb
    MaxPushes = 1
    MaxCalls = 1
INVARIANT NeverTerminates
CHECK_DEADLOCK FALSE
