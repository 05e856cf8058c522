SPECIFICATION FairSpec
CONSTANTS
  Files = {main_gp, shape_gp}
  Timers = {t1, t2, t3}
  MaxEdits = 3
INVARIANT HolesAreShown
PROPERTIES ShownIsFreshView OpenFilesConverge
CHECK_DEADLOCK FALSE
