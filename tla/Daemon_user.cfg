\* An ordinary user: the daemon runs under sudo.
SPECIFICATION Spec
CONSTANTS
  t1 = t1  t2 = t2
  MaxDaemons = 1
  Scripts = {t1}
  Root = FALSE
  NoFile = NoFile
INVARIANT InactiveIsTrue
CHECK_DEADLOCK FALSE
