\* The ring of both programs: drmInit sets and checks ZPOS, or it does not.
SPECIFICATION Spec
CONSTANT
  BufCount = 3
INVARIANTS
  TypeOK
  NoDoubleFree
  NoDeadUse
  NothingLeaked
  DrawsOffScreen
\* The program ends.
CHECK_DEADLOCK FALSE
