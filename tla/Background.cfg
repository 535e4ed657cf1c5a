CONSTANTS
 Absent = Absent
 MaxFaults = 2
 Clients = {c1, c2}
 Default <- MCDefault
 Most <- MCMost
 Patches <- MCPatches
 BudgetPatches <- MCBudgetPatches
 Stored <- MCStored
 MaxEdits = 3
 Answers <- MCEither
 MaxTime = 2
 MaxGrowth = 3
 Parent <- MCParent
 Catalogue <- MCCatalogue
 Payloads <- MCPayloads
 MaxEntries = 6
 BatchSize = 2
 MaxStarts = 2
 Chats = {h1, h2}
 MaxUpdates = 2
 Procs = {p1, p2, p3}
SPECIFICATION BackgroundSpec
\* The bounds are used up in the end, and a schema that is ready stays so.
CHECK_DEADLOCK FALSE
INVARIANT BackgroundTypeOK
PROPERTIES
 OrderKept
 DropsJustEnough
 SettingsUsed
 RegistrationsHeal
 StartAnswered
 SchemaReached
