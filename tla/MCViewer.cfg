CONSTANTS
  Groups = 3
  Settings <- MCSettings
  Parts = {"menu", "search", "doc", "results"}
  Texts <- MCTexts
  Prompt <- MCPrompt
  Topics = {"General", "Types"}
  Entries <- MCEntries
  NoPage = NoPage
  NoResults = NoResults
  OtherPage = OtherPage
  MaxStray = 1
  Links = {"l1", "l2", "l3"}
  Tips = {"t1", "t2"}
  TipOf <- MCTipOf
  Offsets <- MCOffsets
  TipWidth <- MCTipWidth
  NoLink = NoLink
  NoTimer = NoTimer
  Boxes = {"q1", "q2"}
  Widths = {2, 3, 4}
  Pages <- MCPages
  Queries <- MCQueries
  NotYet = NotYet
SPECIFICATION Spec
INVARIANTS TypeOK FocusKeepsPanel ResultsForField OnlyTipUnderMouse BoxesFit TogglesItsRow RowsMatch
PROPERTIES TipFitsPage LeavingDeactivates RestBringsResults RestShowsTip WalkEnds
