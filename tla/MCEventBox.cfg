SPECIFICATION FairSpec
CONSTANTS
    Events <- MCEvents
    Values = {1, 2}
    Absent = Absent
    NoEvent = NoEvent
INVARIANT NoLostWakeup
PROPERTY MailboxSpec
PROPERTY WatchedIsConsumed
PROPERTY WaitForReturns
