CONSTANTS
  s1 = s1
  s2 = s2
  hot = hot
  mean = mean
  quiet = quiet
  mail = mail
  chat = chat
  Sensors = {s1, s2}
  Rules = {quiet}
  Channels = {mail}
  SensorOf <- MCSensorOf
  RuleType <- MCRuleType
  Condition <- MCCondition
  Threshold <- MCThreshold
  Duration <- MCDuration
  Cooldown <- MCCooldown
  LinkedTo <- MCLinkedTo
  Payloads <- ScannerEntries
  MaxEntries = 2
  BatchSize = 2
  MaxTime = 4
  MaxEdits = 0
  MaxFaults = 1
SPECIFICATION FairSpec
PROPERTIES
  GraceRespected
  SilenceReported
  EveryEventHandled
