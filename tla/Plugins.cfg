CONSTANTS
  mail = mail
  demo = demo
  Plugins = {mail, demo}
  Self = mail
  Payloads <- AllEvents
  MaxEntries = 3
  BatchSize = 2
  MaxFaults = 2
  Flaky = {demo}
  Configs = {0, 1}
  Defaults = 0
  Cycles = 2
  MaxEdits = 3
SPECIFICATION PluginsSpec
INVARIANTS
  PluginsTypeOK
  SentAtMostOnce
  AckedWasTried
  StaleIsNoticed
PROPERTIES
  SentInOrder
  AlertSent
  OffStaysOff
  Converges
