SPECIFICATION FairSpec
CONSTANTS
    unit = unit
    Unit <- MCUnit
    Initial <- MCInitial
    State = {"active", "inactive"}
    Client = {c1, c2}
    Reader = {c1}
    MaxChanges = 1
INVARIANTS TypeOK NothingMissed SnapshotOfOneMoment SettledIsShown
PROPERTIES ClientsCatchUp ToldGoodbye ShutdownEnds
CHECK_DEADLOCK FALSE
