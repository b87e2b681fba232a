SPECIFICATION FairSpec
CONSTANTS
  Sessions <- MCSessions
  MaxSends = 9
  MaxLosses = 1
  MaxLevel = 9
\* gdb need not say anything more; a panic stops the machine.
CHECK_DEADLOCK FALSE
INVARIANTS
  TypeOK
  FramesHoldTheirOwn
  ContextIsLive
  NoInstructionSkipped
  StepsTheProgram
  StopIsKnown
  CharactersAreFetched
  DetachedTargetRuns
PROPERTY
  ContinueTakesEffect
