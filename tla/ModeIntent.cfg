SPECIFICATION Spec
CONSTANTS
  i1 = i1  i2 = i2  p1 = p1  p2 = p2  p3 = p3
  Consumers <- MCConsumers
  Intents <- MCIntents
  NoIntent = NoIntent
  Limit = 2
CHECK_DEADLOCK FALSE
PROPERTIES
  CheckpointIsNotOverwritten
