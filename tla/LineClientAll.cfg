SPECIFICATION FairSpec
CONSTANTS
    ui = ui
    hb = hb
    Callers = {ui, hb}
    Heartbeat = hb
    MaxPushes = 2
    MaxCalls = 2
INVARIANTS TypeOK PushesInOrder AnswerIsNotLost
PROPERTIES QuietAfterDisconnect DisconnectEnds PushIsHandled
CHECK_DEADLOCK FALSE
