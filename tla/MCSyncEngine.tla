---------------------------- MODULE MCSyncEngine ----------------------------
EXTENDS SyncEngine, TLC

CONSTANTS m1, m2

\* m2 is listed before m1, whichever arrives first.
MCRank == [m \in Messages |-> IF m = m1 THEN 2 ELSE 1]

\* Nothing becomes possible by settling, so safety runs do not explore beyond it.
Unsettled == ~steady
=============================================================================
