\* drmInit of rkdrm_display on a driver that refuses ZPOS.
SPECIFICATION Spec
CONSTANT
  BufCount = 3
INVARIANT
  InitSuccessIsUsable
CHECK_DEADLOCK FALSE
