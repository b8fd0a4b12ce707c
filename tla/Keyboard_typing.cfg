CONSTANTS
  Input <- TwoLines
  NewLine = "enter"
  PollsToType = 8
SPECIFICATION KeyboardSpec
PROPERTIES NothingSwallowed WaitEnds
