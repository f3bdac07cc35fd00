SPECIFICATION MCSpec
CONSTANTS
  Title = {"", "Named"}
  MaxTabs = 3
  MaxWidgets = 2
  MaxTasks = 2
  MaxOps = 4
  MaxFails = 1
  MaxRestarts = 1
  MaxSteps = 4
  MaxVersion = 2
  MaxErrors = 1
  File = {f1, f2}
  MaxHandoffs = 2
  MaxSends = 2
  MaxActions = 7
INVARIANTS LayoutsAreKept WidgetsAreShown PanelIsCurrent AutoSubmitSendsHandoff
CHECK_DEADLOCK FALSE
