SPECIFICATION FairSpec
CONSTANTS
  Calls = {c1}
  Handlers = {h1, h2}
  NoHandler = NoHandler
  MaxUsed = 1
  MaxTrouble = 1
CHECK_DEADLOCK FALSE
INVARIANTS TypeOK DoneIsApplied RunOnce NoLostWakeup AckIsHeard TrafficKept RepeatIsBounded
PROPERTIES CallEnds TrafficArrives
