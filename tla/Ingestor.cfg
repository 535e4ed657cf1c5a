CONSTANTS
  s1 = s1
  s2 = s2
  d1 = d1
  d2 = d2
  p1 = p1
  p2 = p2
  Sensors = {s1, s2}
  Devices = {d1, d2}
  Plugins = {p1, p2}
  OwnerOf <- MCOwnerOf
  PluginOf <- MCPluginOf
  Payloads <- AllReadings
  MaxEntries = 2
  BatchSize = 2
  MaxFaults = 2
SPECIFICATION FairSpec
INVARIANTS
  TypeOK
  AckedWasHandled
  LastSeenBacked
  LastSeenCoversRows
PROPERTIES
  LastSeenNeverGoesBack
  ImplementsContract
  EveryEntryResolved
