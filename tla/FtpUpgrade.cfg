SPECIFICATION Spec
CONSTANTS
  f1 = f1
  f2 = f2
  Files = {f1, f2}
  Size <- MCSize
  PageChunks = 2
  NSlots = 3
  MaxCommands = 3
  None = None
INVARIANTS InstallsTheFile ChannelsAccounted
PROPERTY TimerLeavesDownload
