CONSTANTS
  Displays = {0, 1}
  TTYTASK = tty_task
  Columns = 2
  Lines = 2
  Letters = {"a"}
  Input = {"a", "backspace"}
  NULL = NULL
SPECIFICATION FairSpec
INVARIANTS ScreenShowsCurrent MarksSuffice EchoTakenBack
PROPERTIES WritesReturn
