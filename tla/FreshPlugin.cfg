CONSTANTS
  mail = mail
  Plugins = {mail}
  Flaky = {}
  Configs = {0}
  Defaults = 0
  Cycles = 2
  MaxEdits = 0
  MaxFaults = 1
SPECIFICATION FairSpec
PROPERTIES
  EveryPluginGetsARow
