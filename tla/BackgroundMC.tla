----------------------------- MODULE BackgroundMC -----------------------------
(***************************************************************************)
(* The services behind the pages in one instance: the system settings, the *)
(* ingestor's storage with them, the registrations, the Telegram listener  *)
(* and the start-up of the database.  They share nothing but what each     *)
(* module holds, so that a behaviour is one group's, chosen at the start.  *)
(***************************************************************************)
EXTENDS Storage

CONSTANTS
  BudgetPatches,
  Parent, Catalogue, Payloads, MaxEntries, BatchSize, MaxStarts,
  Chats, MaxUpdates,
  Procs

VARIABLES
  group,
  log, base, created, last, pel, row, starts, next, reader, batch, clean,
  updates, confirmed, channels, offset, inbox, listener, verdict, replies, gaveUp, runs,
  objects, version, step, look, late

storage == <<rows, cache, load, req, edits, size, grown, policy, pc, tick, retired>>
registration == <<log, base, created, last, pel, row, starts, next, reader, batch, clean>>
telegram == <<updates, confirmed, channels, offset, inbox, listener, verdict, replies,
              gaveUp, runs>>
schema == <<objects, version, step, look, late>>
backgroundVars == <<group, faults, storage, registration, telegram, schema>>

R == INSTANCE Registration WITH pc <- reader
T == INSTANCE Telegram WITH pc <- listener, batch <- inbox
M == INSTANCE Migrations WITH pc <- step

ASSUME BackgroundAssumption ==
  /\ StorageAssumption /\ BudgetPatches \subseteq Patches /\ Clients # {}
  /\ R!RegistrationAssumption /\ T!TelegramAssumption /\ M!MigrationsAssumption

\* The groups do not start but in the state the others find them in.
BackgroundInit ==
  /\ group \in {"settings", "storage", "registration", "telegram", "schema"}
  /\ Init /\ R!Init /\ T!Init /\ M!Init
  /\ group \notin {"settings", "storage"} => rows \notin Stored
  /\ group # "telegram" => channels = {}
  /\ group # "schema" => objects = {} /\ version = Absent

\* The settings as the ingestor's storage sees them: one client, one edit, of the
\* budget if it is a PATCH; and one fault.
Narrow ==
  /\ edits' <= 1 /\ faults' <= 1
  /\ \A c \in Clients : req'[c] # Idle =>
       /\ c = CHOOSE d \in Clients : TRUE
       /\ req'[c].op = "update" => req'[c].set \in BudgetPatches

\* A step of one group.
InStorage(A) ==
  group = "storage" /\ A /\ UNCHANGED <<group, registration, telegram, schema>>
InRegistration(A) ==
  group = "registration" /\ A /\ UNCHANGED <<group, storage, telegram, schema>>
InTelegram(A) ==
  group = "telegram" /\ A /\ UNCHANGED <<group, storage, registration, schema>>
InSchema(A) ==
  group = "schema" /\ A /\ UNCHANGED <<group, storage, registration, telegram>>

BackgroundNext ==
  \/ /\ group = "settings"
     /\ Api \/ Restart("api")
     /\ UNCHANGED <<group, disk, registration, telegram, schema>>
  \/ InStorage(Next /\ Narrow)
  \/ InRegistration(R!Next) \/ InTelegram(T!Next) \/ InSchema(M!Next)

\* What the modules assume, each of its own group.
BackgroundFairness ==
  /\ WF_backgroundVars(InStorage(Ingestor))
  /\ WF_backgroundVars(InStorage(CacheExpires))
  /\ WF_backgroundVars(InRegistration(R!Register))
  /\ WF_backgroundVars(InRegistration(R!Consumer))
  /\ WF_backgroundVars(InTelegram(T!Listener))
  /\ \A p \in Procs : WF_backgroundVars(InSchema(M!Start(p)))

BackgroundSpec == BackgroundInit /\ [][BackgroundNext]_backgroundVars /\ BackgroundFairness

-----------------------------------------------------------------------------
\* Three of the settings, in halves; bodies of PATCH, one of them refused for
\* its value, one for its order; an override left from an earlier release.
Num(k, n) == [kind |-> k, value |-> n]
Only(k, v) == [x \in {k} |-> v]
MCDefault == [retention |-> 6, compression |-> 2, budget |-> 2]
MCMost == [retention |-> 6, compression |-> 6, budget |-> 6]
MCBudgetPatches == { Only("budget", Num("int", 4)) }
MCPatches ==
  MCBudgetPatches \cup
  { Only("retention", Num("int", 4)), Only("compression", Num("float", 4)),
    Only("compression", Num("float", 3)), Only("budget", Num("int", 8)),
    [retention |-> Num("int", 6), compression |-> Num("int", 4)] }
MCStored == { [retention |-> Absent, compression |-> Num("float", 5), budget |-> Num("int", 4)] }

\* What TimescaleDB's chunks_detailed_size() gives for a chunk, and what the tests
\* of the enforcer have it give.
MCTimescale == {"chunk_schema", "chunk_name", "table_bytes", "index_bytes", "toast_bytes",
                "total_bytes", "node_name"}
MCMocked == {"range_end", "total_bytes"}
MCEither == {MCTimescale, MCMocked}
MCInstalled == {MCTimescale}

\* One plugin with a device and its sensor.
MCParent == [plugin |-> Absent, device |-> "plugin", sensor |-> "device"]
MCCatalogue == << "plugin", "device", "sensor" >>
MCPayloads == [row : DOMAIN MCParent, says : 1 .. MaxStarts]

-----------------------------------------------------------------------------
\* Each group's tables and variables are of their types, with the constraints
\* the database keeps.
BackgroundTypeOK ==
  CASE group = "settings" -> SettingsTypeOK
    [] group = "storage" -> TypeOK
    [] group = "registration" -> R!TypeOK
    [] group = "telegram" -> T!TypeOK
    [] group = "schema" -> M!TypeOK
\* See Storage.
SettingsUsed == group = "storage" => SettingsTakeEffect
\* See Storage: the module's promise, which does not hold with TimescaleDB's columns.
BudgetKept == group = "storage" => BudgetRespected
\* See Registration.
RegistrationsHeal == R!RegistrationsHeal
\* See Telegram.
StartAnswered == T!StartAnswered
\* See Migrations.
SchemaReached == group = "schema" => M!SchemaReached
===============================================================================
