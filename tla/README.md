# NodeLens in TLA+

NodeLens collects readings of small devices, stores them in TimescaleDB and raises
alerts. It is a handful of Python processes that talk through Redis streams and share one
PostgreSQL database. This directory holds its TLA+ specifications, the TLC
configurations that check them on small instances and the TLAPS proofs about them.
Paths such as `workers/ingestor/writer.py` are relative to `backend/nodelens/`.

## 1. The system

### Processes

| Process | Code | Talks to |
|---|---|---|
| `ingestor` | `workers/ingestor/` : one event loop, `asyncio.gather` of the telemetry consumer, the registration consumer and the disk-budget enforcer | reads the telemetry and registration streams, writes PostgreSQL |
| `alerts` | `workers/alerts/` : one event loop, `TaskGroup` of the engine and the no-data scanner | reads the telemetry stream (a group of its own), reads and writes PostgreSQL, publishes dispatch events |
| `plugins` | `workers/plugin_runner/` : a supervisor, one subprocess per active plugin | polls PostgreSQL; device plugins publish registrations and telemetry, integration plugins read the dispatch stream |
| `api` | `api/` : FastAPI | reads and writes PostgreSQL |
| `redis` | no persistence in the compose file; `allkeys-lru` in `deploy/redis/redis.conf` | |
| `postgres` | TimescaleDB | |

All containers are `restart: unless-stopped`.

### Components: state, operations, what is hard, what makes them correct

* **Redis streams** (`redis/streams.py`). State: a log of entries and, per consumer group,
  whether it exists, its last-delivered id and its pending entries. Operations:
  `publish_event` (XADD), `ensure_consumer_group` (XGROUP CREATE from id 0, BUSYGROUP
  swallowed), `read_stream` (XREADGROUP with `">"`), `ack` (XACK). Hard: the reply of a
  read may be lost after Redis has served it; Redis may come back empty, without the groups.
  Nothing ever reads pending entries again (no XAUTOCLAIM, no read from id 0).
* **Telemetry consumer and writer** (`workers/ingestor/consumer.py`, `writer.py`). State:
  the batch in hand; tables `sensors`, `devices`, `plugins`, `telemetry`. One batch:
  parse, acknowledge the unparseable, look up sensors, look up devices of active plugins,
  compare timestamps, insert (row by row if a foreign key fails), update
  `devices.last_seen`, acknowledge. Hard: every step is a transaction of its own and
  everything can change or fail in between. Correct if: nothing is acknowledged that was
  not handled; `last_seen` follows the rows and never goes back; every entry is resolved.
* **Registration consumer** (`workers/ingestor/registration.py`). State: tables `plugins`,
  `devices`, `sensors`. Upserts plugin, device and sensor in the order of their events,
  acknowledges each event, failed or not. Hard: foreign keys between events, failures in the
  middle, lost streams. Correct if what was missed heals itself when the plugin registers again.
* **Disk-budget enforcer** (`workers/ingestor/retention.py`) and **storage policies**
  (`db/__init__.py`). Measures the table, lists its chunks, drops the oldest ones: three
  statements, beside the writers and the database's own retention job. Hard: boundaries, a
  budget from a cache, sizes that are stale when they are used, a query whose text no test sends to a
  database. Correct if the table gets within the budget (it does not: see run `over_budget`), nothing is
  dropped that need not be, and an edited budget is the one that is used.
* **Alert engine, evaluator, dispatcher** (`workers/alerts/engine.py`, `evaluator.py`,
  `dispatcher.py`). State: the batch in hand, table `alert_history`, the dispatch stream.
  Per event, in one session: rules of the sensor, cooldown, decision; then per fire a
  history row and an XADD per channel; then the commit. Hard: publication and commit are
  not atomic; a failed event is logged and acknowledged. Correct if: no two recorded fires
  within a cooldown; recorded means published; published means recorded unless something
  failed; no crossing of a threshold is passed over.
* **No-data scanner and liveness marks** (`no_data_scanner.py`, `liveness.py`). State: when
  the scanner started, when the engine last had an event. Hard: restarts, a slow ingestor, a
  stalled engine, failing ticks. Correct if: a restart cannot mass-fire, a reportable
  silence is reported, and data on its way is not taken for silence (it is: see run
  `false_silence`).
* **Dispatch loop of an integration plugin** (`sdk/integration_runtime.py`). A consumer
  group per plugin; filters, sends, acknowledges the batch at its end. Hard: the supervisor
  or a crash ends it at any await. Correct if: no alert is sent twice, alerts go out in
  order, and acknowledged means tried.
* **Plugin supervisor** (`workers/plugin_runner/`). State: subprocesses, the
  `config_version` last seen of each. Polls the database, starts, stops, restarts. Hard:
  polled versions against the configuration a subprocess reads later; a database that
  cannot be asked; blocking restart delays. Correct if running subprocesses converge to
  what the database says.
* **Plugin configuration** (`plugin_config/`). State: `plugins.config`, one JSON column, and
  `config_version`. Read, merge, write back whole. Hard: concurrent updates; values stored
  under an earlier version of the schema. Correct if no change goes uncounted, no override is
  lost behind everybody's back and the plugin is given values of the types it declares.
* **System settings** (`system_settings/`). A TTL cache per process over a table, with
  a cross-field invariant (compress before retire). Hard: a cache that is emptied before the
  commit; requests that are checked against the cache; `reset` without the check. Correct if
  only these can break the order, and a change takes effect in the other process in the end.
* **Accounts** (`api/routes/users.py`, `auth.py`, `auth/dependencies.py`). State: `users`, the cookies.
  Check-then-act: first-run setup, last active user, unique names. Correct if nobody is locked
  out (somebody can be: see run `lock_out`).
* **Dashboards** (`api/routes/dashboards.py`). Default dashboard (a bulk UPDATE, then another
  statement), widgets, cascades. Correct if there is one default, or none only on request.
* **Alert rules, channels, history** (`api/routes/alerts.py`, `channels.py`). Partial updates that are
  validated as a whole, link tables replaced as a whole, deletes with cascade.
* **Database start-up** (`db/__init__.py`, `alembic/versions/`). Three processes look for
  `alembic_version`, stamp an old database and upgrade, all at once. Correct if all get ready on
  the whole schema.
* **Telegram plugin** (`plugins/integrations/telegram/` under `src/`). A `getUpdates` loop with an offset in
  memory, which answers `/start`. Correct if no update is passed over.
* **Not protocol code**: telemetry queries, health, middleware, the e-mail and demo plugins'
  payloads, the frontend, deployment files.

The hazards found, each at its line and with the properties that would catch it, are
listed in `PROJECT.json` under `hazards`.

## 2. The modules

| Module | Models | Uses |
|---|---|---|
| `RedisStream` | one stream and one consumer group; passive | |
| `AtMostOnce` | abstract: what a consumer of a stream promises | |
| `Ingestor` | telemetry consumer and writer, with its environment | extends `RedisStream`, refines `AtMostOnce` |
| `AlertEngine` | engine, evaluator, dispatcher, scanner, liveness marks | extends `RedisStream`, refines `AtMostOnce` |
| `DispatchLoop` | dispatch loop of one integration plugin and its subprocess | extends `RedisStream` |
| `Supervisor` | the plugin supervisor, its database table and its subprocesses | |
| `FieldTypes` | typed values: `coerce()` and `validate()` of both registries | |
| `PluginConfig` | manifest, stored overrides, concurrent requests, `config_version` | extends `FieldTypes` |
| `SystemSettings` | table of overrides, cache of each process, `PATCH` and `DELETE` | extends `FieldTypes` |
| `Storage` | storage policies at start, the disk-budget enforcer, the retention job | extends `SystemSettings` |
| `Registration` | a plugin's registrations and their consumer | extends `RedisStream` |
| `Accounts`, `Dashboards`, `AlertRules` | the tables of the API and the requests that change them | |
| `Telegram` | the `/start` listener | |
| `Migrations` | `init_models()` of several processes, the Alembic revisions | |
| `IngestorMC`, `AlertEngineMC`, `SupervisorMC` | the instances TLC checks | |
| `PluginsMC` | one instance of `DispatchLoop` and `Supervisor` | extends `DispatchLoop`, instantiates `Supervisor` |
| `ApiMC` | one instance of `Accounts`, `PluginConfig`, `Dashboards`, `AlertRules` | extends `Accounts`, instantiates the others |
| `BackgroundMC` | one instance of `SystemSettings`, `Storage`, `Registration`, `Telegram`, `Migrations` | extends `Storage`, instantiates the others |
| `RedisStreamProofs` | lemmas for every consumer | extends `RedisStream` |
| `IngestorProofs`, `AlertEngineProofs` | theorems about the two consumers of telemetry, and what `AtMostOnce` is worth for each | extend `RedisStreamProofs` |
| `DispatchLoopProofs`, `SupervisorProofs`, `AccountsProofs` | theorems about each module | |
| `ApiProofs` | theorems about `PluginConfig`, `Dashboards`, `AlertRules` and their composition | extends `ApiMC`, `AccountsProofs` |
| `BackgroundProofs` | theorems about `SystemSettings`, `Storage`, `Registration`, `Telegram`, `Migrations` and their composition | extends `BackgroundMC` |

`RedisStream` holds the state of the stream and an operator per Redis command; a consumer
module extends it and conjoins the command with what the consumer does at that await. The
id of an entry is its position in a log that only grows; losing the stream moves `base` to
the end of the log and deletes the group, which is why ids are never reused.

### Correspondence to the code

The consumers are coroutines: control can be lost only at an `await`. Each module therefore
has one action per await, and `pc` (`epc`, `spc`) names the await the task is at.

`Ingestor`:

| `pc` | the loop is at | actions |
|---|---|---|
| `down` | not running | `Start` (`ensure_consumer_group`) |
| `read` | `read_stream` | `Read`, `ReadNoGroup`, fault `ReadReplyLost` |
| `badack` | `ack(*bad_ids)` | `AckBad` |
| `sensors`, `devices` | the two queries of `_load_mappings` and the validation loop | `LoadSensors`, `LoadDevices` |
| `insert` | `_insert_rows` | `Insert`, fault `InsertReplyLost` |
| `rowwise` | `_insert_rows_individually` | `InsertIndividually` |
| `lastseen` | `_update_last_seen` | `UpdateLastSeen` |
| `ack` | `ack(*good_ids)` | `AckGood` |

`valid` shrinks as the writer goes (parsed UUIDs, then events of known sensors, then
`valid_rows`). `fate` is a history variable: the verdict on each entry. Faults: `Crash`,
`ReadReplyLost`, `WriteFails` (any statement of `write_batch`, or the ack, raises),
`InsertReplyLost` (committed, reply lost), `StreamLost`. Environment: producers, the
registration consumer, an administrator's DELETE (the only way into the per-row fallback)
and the plugin switch. A timestamp without a zone is data (`"naive"`) because Python raises
when it is compared with one that has a zone.

`AlertEngine`: `epc` and `spc` are the engine and the scanner; `fires[a]` are the decisions
actor `a` has yet to go through in `dispatch_fires`, `open[a]` the rows of its open
transaction, `history` the committed rows, `sent` the published (fire, channel) pairs.
`ProcessEvent` is `_process_event` up to the dispatch, `DispatchFire` a pass of the loop over
fires, `Commit` the commit. `Die` ends both tasks, as the `TaskGroup` does, and resets the
marks of `liveness.py`. `DispatchFails` is any exception in `dispatch_fires`, after any
part of the publications.
Abstractions: the rules of one event are evaluated at one instant, and so is a scan (both
are sequences of reads; a later write of the ingestor is a later event of the environment);
a rule's `no_data` condition and its `rule_type` are one field; `live` merges `is_active` of
a channel and of its plugin; `max` stands for the five aggregates; a crash between two
channels of a fire is a `DispatchFails` followed by a `Crash`.

`DispatchLoop`: `Read`, then per message `Skip` or `Deliver`, then `AckBatch`. `Start` and
`Stop` are the supervisor's, `Crash` and `CrashInSend` the subprocess's. `attempts` counts
calls of `send()`, whatever it returned: the loop never retries.

`Supervisor`: `main()` is one sequential, blocking loop; `spc` is the place it is at.
`bootstrap` is `ensure_plugin_rows`, `boot` the first query and the first subprocesses, `sleep` the
monitor interval, after which `Wait` or `Poll`; `apply` the three loops after a poll
(stop, start, restart on another `config_version`), `monitor` the restart of what has exited. `procs`,
`seen`, `states` and `tracker` are `processes`, `active_ids`, `states` and
`last_config_version`. The set of plugins is what `discover_plugins` found. What the three loops do depends on the poll's answer and on these
variables only, never on the table again, so they are one action; the operator may edit
between `Poll` and `Apply`, and between the start of a subprocess and its `LoadConfig`. A pass
of `Monitor` is one action as well: a subprocess that dies during its restart delays is
taken to have died before it or after it. `Crash` is the end of the container and of all
subprocesses. A `Flaky` plugin exits any number of times; the others only as often as
`MaxFaults` allows. `off` is a history variable: the plugins inactive at every moment since the
database last answered.

**Requests** (`Accounts`, `PluginConfig`, `Dashboards`, `AlertRules`, `SystemSettings`). A request is a
coroutine with a database session of its own, so a handler is one action per statement: `req[c]`
is the request client `c` waits for, with the rows it has loaded (`view`) and the place it is at.
The last statement that writes is one action with its commit (under READ COMMITTED its row lock
lasts until then), `Fail` is any error after which the transaction leaves nothing. A refused
request that has changed nothing is not an action. `raced` is a history variable of a request: another
commit has changed what it relied on since it looked. The properties are about what may happen
without that, and the theorems say that the checks in the code are right as long as it is false.

| Module | what overlaps | where the code looks, where it writes |
|---|---|---|
| `Accounts` | `SetupCount`/`SetupCommit`, `UpdateLoad`/`UpdateCount`/`UpdateCommit`, `DeleteLoad`/`DeleteCount`/`DeleteCommit`, `LoginFind`/`LoginCommit`, `ResetLoad`/`PasswordCommit` | `_active_count`, the `select` of `setup`; the ORM's flush, which writes only the columns whose value differs from the *loaded* one (`Patched`). `Loaded` is the identity map: a handler that looks up its own caller finds the row the dependency had loaded |
| `PluginConfig` | `UpdateLoad`, `ResetLoad` / `UpdateWrite` | `_load`, then an UPDATE of the whole column with `config_version + 1` counted by the database. `Bootstrap` is `ensure_plugin_rows`, `Upgrade` a new manifest on disk |
| `Dashboards` | `CreateDashboard`, `UpdateDashboard` / `UnsetDefaults` / `CreateCommit`, `UpdateCommit` | `_unset_default_dashboards` is a bulk UPDATE: its snapshot is an action (`UnsetDefaults`), its effect comes with the commit (`Cleared`), on the rows that are still default then |
| `AlertRules` | `UpdateRule`/`UpdateRuleCommit`, `SetChannels`/`ReadLinks`/`SetChannelsCommit`, the others likewise | the check in `update_alert_rule` of the rule as the body leaves it; the `select` of the linked channel ids in `set_rule_channels`, and the difference (`to_add`, `to_remove`) it adds and deletes |
| `SystemSettings` | `Update`/`WriteNext`/`Commit`, `Reset`, `ReloadRead`/`ReloadStore`, `Expire` | the cache of the api process; one upsert per key, each with its row lock; `invalidate_cache()` before the commit |

`Storage` continues `SystemSettings` with the ingestor's own cache: `ApplyPolicies` at start, then `Wake`,
`Measure`, `ListChunks`, `DropChunks` (the statements of `enforce_once`), beside `Write` and `Retire`.
Sizes are in units, `SelectChunks` is `select_chunks_to_drop`. What `chunks_detailed_size()` gives for a chunk is
the constant `Answers`: if the columns lack one that the query asks for, `ListChunks` is the end of the tick, with
an error that is logged. TimescaleDB's function has names and sizes and no `range_end`, so that in the program as it is
deployed `DropChunks` is never reached; with the columns of the tests' stand-in it is. `Registration`: `Register` is
one XADD of a start, `Handle` one event and its transaction, `Ack` the XACK; `clean` (history): the
plugin has started after the last fault. `Telegram`: `GetUpdates`, then per update `Take`, `Lookup`,
`Reply`; what the bot's server keeps is external and follows the Bot API's confirmation by offset.
`Migrations`: `LookForAlembic`, `LookForPlugins`, `Stamp`, `ReadRevision`, `Upgrade` are the
statements of `init_models()`; an object that is created twice is an error that ends the process,
and the container restarts it.

## 3. What TLC checks

| Run | Question | Result |
|---|---|---|
| `ingestor` | acknowledged means handled; `last_seen` backed by an event that is stored or was skipped row by row, covering the rows, never going back; the contract; every entry resolved in the end | holds |
| `ingestor_redelivery` | the comment at `consumer.py:68`: a failed batch is redelivered | violated: it is stranded for ever |
| `alert_engine` | cooldown among recorded fires; recorded means published; published means recorded while nothing fails; every crossing of an instant rule covered by a fire; the contract | holds |
| `no_data_scan` | grace after a restart; a reportable silence is reported although ticks fail; every event dealt with in the end, over a lost group too | holds |
| `false_silence` | README: `no_data` fires when the sensor *produced* nothing; a stalled pipeline does not look like silence | violated: no fault needed, the ingestor is late |
| `repeated_alert` | README: re-fires are suppressed within the cooldown | violated: publication, then a failed commit, then the next event |
| `plugins` | the integration plugin: no alert sent twice, alerts in order, acknowledged means tried, alerts sent in the end; the supervisor: no change of a configuration is missed, what is off is not restarted, subprocesses converge to the table once edits and failures stop, next to a plugin that keeps crashing | holds |
| `api` | the four groups of tables behind the pages, under concurrent requests: last active user, counted and kept overrides, typed configuration, one default dashboard, sound `no_data` rules, links as requested | holds |
| `lock_out` | comment in `update_user` ("protects against lock-out"): an active user is always left | violated: two requests count two users each |
| `background` | the order of compression and retention; an edited budget reaches the enforcer, whose ticks never stop; just enough is dropped if the query is answered; registrations heal; every `/start` answered; the whole schema reached by processes that start at once | holds |
| `over_budget` | docstring of `retention.py`: a table over its budget is brought back within it | violated: every tick over budget fails at the query for the chunks |
| `fresh_plugin` | docstring of `ensure_plugin_rows`: a row for every plugin discovered, so that a fresh one starts | violated: one failed bootstrap is not repeated |

The type invariant of each module is checked along (`PluginsTypeOK`, `ApiTypeOK` and `BackgroundTypeOK` are those of the group at
work). Where the database or the protocol keeps more than types, it says that, too: the foreign keys of `Registration`,
an update Telegram may forget was dealt with, a process that is ready has the whole schema.
`LastSeenBacked` admits what the code does with a row the per-row fallback skipped: `write_batch()` counts it for
`last_seen` all the same. The model's `rows` only grow; that old chunks are dropped from the table is in `Storage`.
`DropsJustEnough` bounds a tick of the disk budget on both sides: no chunk in vain, and none too few for what was measured; it is about a drop that happens, and
with TimescaleDB's own columns none does. Several properties of the tables behind the pages (`LastUserStays`, `OverridesKept`,
`DefaultFollowsRequests`, `NoDataStaysSound`, `LinksFollowRequests`, `OrderKept`) except a request that another overtook:
they say that the code is right as far as its own statements go, and that only the overlap, which it does not guard against, can break
it. The hazards in `PROJECT.json` say which part of each is covered. Each property of a passing run has a mutant in the module (a
definition commented "Mutant of ..."), a plausible bug that makes TLC find the property
violated; mutants are not part of any specification.

### Bounds

`MaxEntries` bounds the XADDs, `MaxFaults` the faults, `MaxTime` the ticks, `MaxEdits` the
administrator's switches. They are large enough for every action and every branch to be
taken:

* `ingestor`: 2 entries out of 7 kinds (in and out of order, another device, wrong owner,
  bad id, unparseable, without zone), batches of up to 2, so both one batch of two and two batches of
  one occur; 2 faults, so a failure can hit the recovery from another.
* `alert_engine`: an instant rule with two channels and an aggregated rule without any, 2
  entries, 3 ticks with a cooldown of 2 (so both sides of the cooldown's end occur), 1 fault,
  1 switch. The two channels are symmetric.
* `no_data_scan`, `false_silence`: a sensor to fall silent and another that keeps the
  pipeline alive; 4 ticks for a window of 2, so a whole window fits after a restart.
* `plugins`: one group per behaviour, chosen at the start, since the loop and the supervisor share nothing here
  but that the one is started and stopped by somebody. The loop: 3 entries for two plugins, readable or not, batches of 2 and 1, 2 faults. The supervisor: a plugin that behaves and a flaky one, two configurations, a poll every second
  cycle (5 in the code: what matters is that cycles without a poll exist), 3 edits (off, on and
  a change, or two changes around a restart), 2 faults (a blind start, then a failing poll).
  `fresh_plugin`: one plugin, one fault, no edits: nothing but the failed bootstrap.

* `api`: 2 clients, 2 users with 2 names and 2 passwords, from every initial table that can exist; two
  versions of a manifest with two keys (one changes its type, one stops being a secret) and
  two that are refused, 2 versions counted; 2 dashboards, a widget and a sensor; a rule, 2
  channels, an alert. Two requests are what a race needs: every
  check here is one look and one write. A request of one group touches no table of another, so
  the groups' steps commute, and each behaviour of `ApiMC` is one group's, chosen at
  the start (`group`): the union of four checks, not their product. Clients, names, passwords and channels
  are symmetric.
* `lock_out`: the accounts of the same instance.
* `background`: likewise one group per behaviour. Settings: 3 of the 7 keys (the two ages that are
  ordered, and the budget), whole numbers in halves so that 1.5 is a value, 2 clients, 3 edits, an override left
  from an earlier release. Storage: 2 chunks, 3 units of growth, and by `Narrow` one
  edit of one client and 1 fault. Registration: one
  plugin with a device and a sensor, 2 starts, batches of 2 (so a batch ends between a parent and its
  child), 2 faults. Telegram: 2 chats, 2 updates, 2 faults. Schema: 3 processes, from every earlier
  state of the database, 2 faults. What `chunks_detailed_size()` gives is open in `background`, the columns of TimescaleDB or
  those the tests' stand-in has; in `over_budget`, otherwise the same, they are TimescaleDB's.

Cooldowns are positive in the instances: zero switches the check off in the code, too.

### Fairness

Weak fairness, and only of what the code's scheduling provides: the event loop runs a coroutine that can
run and the container is restarted (`restart: unless-stopped`), hence `WF(RunConsumer)`,
`WF(Engine)`, `WF(Scanner)`, `WF(StartWorker)`; the supervisor's loop never ends, hence
`WF(Supervisor)`. Nothing is assumed of producers, of the administrator, of the clock or,
in `AlertEngine`, of the ingestor. Faults are bounded in number, not fair. The liveness
properties name what a failure may cost: an entry *stranded* (pending and in nobody's hands).
In `Storage`, weak fairness of the ingestor's loop and of the expiry of its cache
(30 seconds pass); in `Registration`, of the consumer and of a plugin that has begun to register; in
`Telegram`, of the listener; in `Migrations`, of each starting process (the container is restarted).
Clients, retention jobs and writers are never fair.
Deadlock is checked in the runs of the consumers and the supervisor; in `api`, `lock_out`, `background` and
`over_budget` it is not, because keys, versions and edits of the instance are used up in the end, and
because a system nobody can sign in to does stop. The administrator's switches alone keep the other models going, so the
liveness properties, not deadlock freedom, say that the loops move on. In `Supervisor`, weak
fairness of `main()` (it never returns, and the container is restarted) and of each subprocess's start
(it comes up or exits; a plugin that exits whenever it starts may never come up, which is
why `Converges` is about the others).

## 4. What is proved

`tlapm` checks the proofs for all values of the constants under the named assumptions
(see below).

* `RedisStreamProofs`: lemmas for any consumer. The stream stays well formed under its
  operations; a published entry never changes; a read returns only what was never
  delivered; only XACK acknowledges, and only what it is given.
* `IngestorProofs!TypeCorrect`: `Spec => []TypeOK`.
* `IngestorProofs!AckedWasHandledAlways`: `Spec => []AckedWasHandled`. `AckedWasHandled` is
  not inductive: `AckGood` acknowledges `batch`, so one has to know that by then every entry
  of the batch is judged. `HeldIsJudged` says what each point of the loop knows of the batch
  (at `insert`, what left `valid` was refused; at `lastseen` and `ack`, all is judged), and
  `Inv == TypeOK /\ AckedWasHandled /\ HeldIsJudged` is inductive. Two facts carry the
  proof: a verdict is never taken back, and a row never leaves the table.
* `IngestorProofs!LastSeenMonotone`: `Spec => LastSeenNeverGoesBack`, from `TypeOK`.
* `IngestorProofs!LastSeenAlwaysBacked`: `Spec => []LastSeenBacked`. The time in `last_seen`
  is that of an entry whose row is in the table or was skipped by the per-row fallback. `StoredInRows` says that what
  counts as stored is in the table; `AcceptedApart` says that such an entry is in nobody's hands
  any more once its batch is let go, so no later batch can turn it into a refused one. It rests
  on the read never delivering an id twice.
* `IngestorProofs!LastSeenAlwaysCovers`: `Spec => []LastSeenCoversRows`. `RowsCovered` adds what
  holds between the two transactions: a row newer than `last_seen` has an entry in
  `valid` that makes up for it. `OwnersChecked` ties that entry's device to the one its sensor
  belongs to, which is what lets the code group by the device the event names.
* `IngestorProofs!IngestorKeepsContract`: `Spec => ImplementsContract`. Each action is matched with
  one of the contract's (`Enqueue`, `Take`, `Progress`, `LetGo`, `Purge`) or a stutter. It
  needs `BatchWhole`: a lost stream takes all of the batch in hand or none of it, so an XACK
  either acknowledges the whole batch or nothing.
* What the contract is worth: `AckedIsFinalAlways`, `HandedOutOnceAlways` and
  `WorkedOnlyInHandAlways`, in `IngestorProofs` and again in `AlertEngineProofs`. They are promises of
  `AtMostOnce` and are derived from its specification alone, through `IngestorKeepsContract` and
  `EngineKeepsContract`: acknowledged is final, nothing is handed out twice, work happens only in hand.
* `AlertEngineProofs`: `TypeCorrect`, `CooldownAlwaysRespected`, `RecordedAlwaysSent`,
  `SentAlwaysRecorded`, `GraceAlwaysRespected`, `InstantAlertAlwaysRaised`,
  `EngineKeepsContract`. The lemma `DispatchSteps` reduces the
  steps of the two tasks to what they do to decisions, open transactions and the table:
  decide, move a fire into the transaction, commit, roll back. The cooldown is checked long
  before the commit, so `CooldownRespected` alone is not inductive: `DecidedOutOfCooldown`
  says that what an actor has in hand is still out of reach of every committed fire of the same rule. It
  stays true when the *other* actor commits, because a rule is decided on by one task only
  (`no_data` by the scanner, everything else by the engine): this, and not a lock, is what
  makes the check safe. `OpenWasSent` and `GroupThere` carry the two theorems about the
  dispatch stream; `ScansAfterStart` the one about the grace after a restart. That no event
  an instant rule waits for is lost takes `EventCovered`: the event in hand has a fire on record or on
  its way there for each rule it calls for, and without a fault `DispatchSteps`
  leaves no way to take one back; `NoneAhead` (no event is from the future) turns "in cooldown now" into
  "within the cooldown of a recorded fire". The contract is shown as in the ingestor, with
  `HeldIsDone` for what the points of the loop know.
* `DispatchLoopProofs`: `TypeCorrect`, `SentAtMostOnceAlways`, `AckedWasTriedAlways`,
  `AlertsInOrder`. `TriedBehind` (everything tried lies behind `lastTried`, everything
  in `todo` before it) makes at-most-once and order inductive; `PassedWasTried` is to
  `AckedWasTried` what `HeldIsJudged` is in the ingestor.
* `SupervisorProofs`: `TypeCorrect`, `StaleIsAlwaysNoticed`, `OffPluginsStayOff`. The
  first needs `NotedBehind`: noted versions are never ahead of the table, so a version
  that was counted up cannot be equal to a noted one again. The second needs `OffIsDown`:
  once an answer of the database was applied, `processes` holds no plugin that is off,
  so neither `Monitor` nor a failed poll can start one.

* `ApiProofs` is about `ApiSpec`, the composition the run `api` checks, with one invariant per group of tables:
  * `ConfigIsAlwaysTyped`, `EveryChangeIsCounted`, `OverridesAlwaysKept` from `ConfigInv`. `UpdateWrite` writes
    a configuration that was merged from an old one, so the type invariant does not say what it leaves;
    `ViewIsFresh` does: a request that was not overtaken still holds the configuration that is stored. It
    is inductive because every write overtakes everybody else. The version needs no such
    argument, since the database counts it: this is why it can be trusted where the column cannot.
    `ConfigIsTyped` rests on lemmas about `coerce()`: what it returns fits the type it was asked for, and a value that
    does not fit gives way to the default, so it does not matter what earlier manifests stored.
  * `DefaultAlwaysFollows` from `DashboardsInv`. `ClearsAll`: what a bulk UPDATE has found to clear is every
    default there is, as long as no commit of another came in between.
  * `SoundRulesStaySound`, `LinksAlwaysFollow` from `RulesInv`. `StillRead`: what a request has read of its rule
    or of the rule's links is what is stored, until another has overtaken it, so a patch that was sound
    on the rule as read is sound on the rule as stored.
  * `ApiTypeCorrect`: the type invariants of the four groups together, with their foreign keys.
* `AccountsProofs`: `TypeCorrect`, `LastUserAlwaysStays`. `StillTrue` carries what
  a request that takes an active user away found out from its look to its commit: that
  another is left. Its step (`CommitStep`) holds because
  whoever commits either leaves everybody's standing alone or overtakes every request under way. A
  change of a user's `is_active` is written only if it differs from the row that was loaded: the
  proof needs that a row loaded as inactive is never written as inactive (`Removes`).
* `BackgroundProofs` is about `BackgroundSpec`, the composition the run `background` checks. `BackgroundInv`
  is one invariant per group and the faults they share; `BackgroundStep` shows that whichever group is at work keeps
  its own and touches no other's.
  * `OrderAlwaysKept`. `SettingsInv` says of an update under way that it was in order with the values it was checked against, that
    its body is what it has written and what it has yet to write, and that no row is locked by two requests. So a commit
    that breaks the order is one that was checked against something else than the table, or a reset.
  * `JustEnoughIsDropped`, for any columns and so of any drop there is. `DiskInv` ties the cutoff to the budget and the size the tick has read. The size and the
    list are two statements, and telemetry may come in between and after: until the retention job runs the table only grows, so
    "too much would be left without the newest chunk" stays true, and "within the target" up to that growth. The sums over
    chunks are a recursive function of the chunk's number; what is needed of them (monotone, positive where a chunk
    is, what is left when the oldest go) is shown for the least number at which it would fail, since
    a smallest counterexample needs no induction theorem with an operator for its parameter.
  * `SaysOnward`: `SaysNeverGoesBack`, a row once registered stays and is never set back to what an earlier start
    of the plugin said. `OrderedInv` says why: messages are in the order of the starts, everything in
    the batch lies before everything still to be delivered, and no row is ahead of a message
    that is still to come. Lost batches leave gaps and no more, since nothing reads pending entries again.
  * `BackgroundTypeCorrect`: the types of the five groups and what the database or the protocol keeps besides.
    `RegistrationInv` has the foreign keys, which an upsert keeps because it looks for the parent first and nothing in the code deletes
    a plugin, a device or a sensor.
    `TelegramInv` and `AnsweredInv` say that the updates in hand are consecutive and all before
    them dealt with, so that the offset of the next poll confirms nothing that was not. `SchemaInv`
    says that, as long as no baseline was stamped late, the objects are exactly those of the revision on record and nobody
    has read a higher one.

The assumptions on constants (`StreamAssumption`, `IngestorAssumption`, `AlertAssumption`,
`DispatchAssumption`, and those of the instantiated modules, which `PluginsMC`, `ApiMC` and
`BackgroundMC` assert as `PluginsAssumption`, `ApiAssumption` and `BackgroundAssumption`) say what
their types are, and little more; TLC evaluates them in every run. What goes beyond types is in the code: every default
of a setting is a positive whole number and the two ages are in order (`registry.py`), the bodies of PATCH are JSON values,
a whole number being even when it is counted in halves. `Absent`, which stands for null, is no record,
row or request of the kind it stands in for. The theorems of `AccountsProofs` and `SupervisorProofs` name theirs as a hypothesis.

Only model-checked: liveness, which is out of the prover's reach (`EveryEntryResolved`, `SilenceReported`,
`EveryEventHandled`, `AlertSent`, `Converges`, `SettingsUsed`, `RegistrationsHeal`, `StartAnswered`, `SchemaReached`), and
what the runs that expect a violation refute. Every invariant and every action property of the passing runs is a theorem
(`PluginsTypeOK` is the `TypeCorrect` of `DispatchLoopProofs` and of `SupervisorProofs`, and `StaleIsNoticed` and
`OffStaysOff` of `PluginsMC` are the properties of the same names that `SupervisorProofs` is about).
Only proved: the three promises of `AtMostOnce` and `SaysNeverGoesBack`.

## 5. Not modelled, and the plan

Next, in this order:

1. `Pipeline`: ingestor, engine and a dispatch loop composed over shared streams, and what the three contracts
   give together.
2. `DispatchLoop` and `Registration` as further refinements of `AtMostOnce`.
3. Safety under the liveness properties: the ranking arguments a reader would give for them, as lemmas.

Known, and not turned into a run:

* a baseline stamped late. One process looks for `alembic_version` and finds none, another upgrades, and the first
  then finds `plugins`, takes the database for one from before Alembic and stamps the baseline over the newer
  revision; from then on every upgrade creates what there is, fails, and is started again. It takes no old database: two
  processes on a fresh one are enough. `SchemaReached` excepts exactly this (`late`), so that everything else
  about start-up is checked.
* two first-run setups with different names that overlap: both find no user, and both make one. The docstring of
  `setup` ("Returns 409 once any user exists") does not hold then. The model has these behaviours; nobody is locked
  out by them.

Left out for good:

* telemetry queries, devices, health, middleware and the frontend: no state of a protocol; a request reads one
  snapshot;
* `downgrade()` of the revisions, which nothing calls, and the load-test and seed scripts;
* four of the seven settings, which no rule relates to another; names, descriptions, severities and layouts of rules,
  dashboards and channels;
* the e-mail and demo plugins and the rendering and HTTP calls of `send()`: clients behind
  the SDK, whose outcome `DispatchLoop` leaves open; the cookie's signature and lifetime (Starlette's);
* the heartbeat files of the workers, read by the container's health check only.
