CONSTANTS
    Payload = {p, q}
    MaxSeq = 3
SPECIFICATION FairSpec
INVARIANTS TypeOK InOrderExactlyOnce ForgottenIsDelivered NakIsForAGap
PROPERTIES ImplementsFifo EventuallyPopped
CHECK_DEADLOCK FALSE
