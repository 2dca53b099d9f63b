\* Two events: one may overtake the other.
CONSTANT MaxEvents = 2
SPECIFICATION FairSpec
INVARIANT NothingLostOrReordered
PROPERTY EveryEventArrives
