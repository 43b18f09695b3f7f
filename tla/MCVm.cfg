CONSTANTS
  Process = {p1, p2, p3}
  InitProc = p1
  Page = {1, 2, 3, 4, 5, 6, 7, 8, 9, 10, 11, 12}
  NoPage = 0
  KTABS = 1
  MAXVA = 4
  NPTENTRIES = 2
SPECIFICATION Spec
VIEW PagesForgotten
INVARIANT PagesAccounted
CHECK_DEADLOCK FALSE
