SPECIFICATION Spec
CONSTANTS
  Sessions <- MCLostAck
  MaxSends = 4
  MaxLosses = 1
  MaxLevel = 8
\* gdb need not say anything more; a panic stops the machine.
CHECK_DEADLOCK FALSE
INVARIANT FramesHoldTheirOwn
