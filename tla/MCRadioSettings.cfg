\* Two goroutines that load, update, set up and clear, with failing reads.
SPECIFICATION FairSpec
CONSTANTS
  t1 = t1
  t2 = t2
  Threads = {t1, t2}
  NoThread = NoThread
  Keys <- MCKeys
  Autojoin <- MCAutojoin
  Cleared = Cleared
  MaxWrites = 4
  MaxErrors = 2
PROPERTIES ImplementsView ShowsWhatIsStored OperationsEnd
CHECK_DEADLOCK FALSE
