\* Root, two terminals, two daemons.
SPECIFICATION FairSpec
CONSTANTS
  t1 = t1  t2 = t2
  MaxDaemons = 2
  Scripts = {t1, t2}
  Root = TRUE
  NoFile = NoFile
INVARIANTS TypeOK StopsWithNothingUnsaved LeavesNothingOpen NoOrphan
PROPERTY StoppedEnds
CHECK_DEADLOCK FALSE
