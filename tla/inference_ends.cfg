SPECIFICATION FairSpec
CONSTANTS
    m1 = m1
    m2 = m2
    s1a = s1a
    s1 = s1
    NoSession = NoSession
    NoCall = NoCall
    Calls <- MCCalls
    Sessions = {s1}
    SessionOf <- MCSessionOf
    CtxOf <- MCOneCtx
    MadeBy <- MCNested
PROPERTIES
    CancelEndsCall
    CancelAllEndsAll
    NoWatcherLeak
