CONSTANTS
  MaxSession = 2
  MaxView = 3
SPECIFICATION Spec
PROPERTY TimedOutViewIsLeft
CHECK_DEADLOCK FALSE
