SPECIFICATION Spec
CONSTANTS
  Calls = {c1, c2, c3}
  NKeys = 2
  NModels = 2
  c1 = c1
  c2 = c2
  c3 = c3
  Asked <- MCAsked
  MaxLimit = 1
  Strict <- MCStrict
  Rpm = 2
  Window = 2
  MaxConcurrent = 2
  MaxFaults = 2
INVARIANTS
  LimitsKept
  FailsForAReason
  NeverRepeated
  QueueMoves
