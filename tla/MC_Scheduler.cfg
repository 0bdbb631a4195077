CONSTANTS
  MAX_TASKS = 4
  MAX_LINE_LEN = 96
  Script <- MCScript
  MaxLag = 1
  INIT_START_SLEEP = 25
  INIT_STEP_SLEEP = 80
  SHELL_IDLE_SLEEP = 20
SPECIFICATION Spec
INVARIANT RoundRobinBound
PROPERTY InitExits
