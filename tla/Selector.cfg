SPECIFICATION FairSelSpec
CONSTANTS
  PAGESIZE = 4
  NLINES = 2
  INACTIVITY = 2
  Cards = {5}
  Joys <- MCJoys
  FaultReads = {2}
  FaultPages = {0}
INVARIANTS ScreenIsTrue
PROPERTIES OpensTheChosen PagesOverlap NoActionWithoutImage SelectorCloses ServesAgain
