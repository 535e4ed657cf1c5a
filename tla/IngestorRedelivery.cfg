CONSTANTS
  s1 = s1
  s2 = s2
  d1 = d1
  d2 = d2
  p1 = p1
  p2 = p2
  Sensors = {s1, s2}
  Devices = {d1, d2}
  Plugins = {p1, p2}
  OwnerOf <- MCOwnerOf
  PluginOf <- MCPluginOf
  Payloads <- GoodReadings
  MaxEntries = 1
  BatchSize = 2
  MaxFaults = 1
SPECIFICATION FailingWritesSpec
PROPERTIES
  FailedBatchRedelivered
