CONSTANTS
    Events = {e1}
    Lists = {l1, l2}
    Readers = {r1, r2}
    Writers = {w1, w2}
    NoEntry = NoEntry
    MaxFaults = 1
SPECIFICATION FairSpec
INVARIANTS AnsweredIsInvalidated
PROPERTIES StaleEntriesGo WritesAnswered
\* Once every request is answered and every entry expired nothing is left to do.
CHECK_DEADLOCK FALSE
