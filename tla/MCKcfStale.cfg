\* A target far from the tracker that has just taken over a slot.
SPECIFICATION Spec
CONSTANTS
  KcfMaxNum = 2
  Places <- MCFarPlaces
  Standers = {2}
  Timeout = 2
  Gaps = {1, 2}
  Horizon = 6
\* The images end.
CHECK_DEADLOCK FALSE
INVARIANT OldTargetIsTracked
