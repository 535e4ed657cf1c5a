CONSTANTS
  s1 = s1
  s2 = s2
  hot = hot
  mean = mean
  quiet = quiet
  mail = mail
  chat = chat
  Sensors = {s1}
  Rules = {hot}
  Channels = {mail, chat}
  SensorOf <- MCSensorOf
  RuleType <- MCRuleType
  Condition <- MCCondition
  Threshold <- MCThreshold
  Duration <- MCDuration
  Cooldown <- MCCooldown
  LinkedTo <- MCLinkedTo
  Payloads <- EngineEntries
  MaxEntries = 2
  BatchSize = 2
  MaxTime = 3
  MaxEdits = 0
  MaxFaults = 1
SPECIFICATION Spec
INVARIANTS
  NoRepeatWithinCooldown
