SPECIFICATION Spec
CONSTANTS
  Sessions = {s1, s2}
  Existing = {s1}
  NoSession = none
  Cards = {c1}
  Files = {f1}
  QueueLimit = 2
  MaxItems = 3
  MaxSends = 3
INVARIANTS StreamingIsExclusive QueueInOrder AnswersGoHome
PROPERTIES HeldMessageWaits QueueDrains
CHECK_DEADLOCK FALSE
