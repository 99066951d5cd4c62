SPECIFICATION Spec
SYMMETRY StreamSymmetry
CONSTANTS
    None = None
    Streams = {s1, s2}
    HistoryCapacity = 2
    SubscriberBuffer = 1
    MaxEvents = 3
    MaxResets = 1
INVARIANTS
    ChannelsInUseAreOpen
    EvictionMakesRoom
    LossesAreCounted
    StreamsAreOrdered
PROPERTIES
    ImplementsEventFeed
    MutexIsReleased
