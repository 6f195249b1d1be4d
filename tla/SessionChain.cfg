SPECIFICATION FairSpec
INVARIANTS TypeOK HandleThreads LeftAliveOpenly
PROPERTIES NoSessionOutstays
