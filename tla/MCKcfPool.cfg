\* Two slots: one can be fresh while the other is settled, and the pool gets full.
SPECIFICATION Spec
CONSTANTS
  KcfMaxNum = 2
  Places <- MCPlaces
  Standers = {1, 2}
  Timeout = 2
  Gaps = {1, 2}
  Horizon = 5
\* The images end.
CHECK_DEADLOCK FALSE
INVARIANTS TypeOK OldByFreshOnly NoTrackerOutlives
PROPERTY NoSecondTracker
