------------------------------- MODULE Ingestor -------------------------------
(***************************************************************************)
(* The ingestor's telemetry path: run_consumer() of                        *)
(* workers/ingestor/consumer.py, which reads batches off the telemetry     *)
(* stream, and write_batch() of workers/ingestor/writer.py, which checks   *)
(* each event against the sensor registry, inserts the rows, brings        *)
(* devices.last_seen up to date and lets the loop acknowledge.             *)
(*                                                                         *)
(* The loop is one coroutine, and control can be lost at every await (the  *)
(* registry changes, a connection drops, the process dies), so there is    *)
(* one action per await.  pc names the await the loop is at.               *)
(***************************************************************************)
EXTENDS RedisStream

CONSTANTS
  Sensors, Devices, Plugins,
  OwnerOf,     \* the device a sensor row points to
  PluginOf,    \* the plugin a device row points to
  BatchSize,   \* count=50 in the code
  MaxFaults    \* bound on the number of faults in a behaviour

(***************************************************************************)
(* What an entry decodes to.  "malformed" fails parse_telemetry_event();   *)
(* "badid" parses, but an id in it is no UUID; "naive" is a good event     *)
(* whose timestamp lacks a zone, which Python cannot compare with one that *)
(* has it ("aware").                                                       *)
(***************************************************************************)
Kinds == {"aware", "naive", "badid", "malformed"}

ASSUME IngestorAssumption ==
  /\ OwnerOf \in [Sensors -> Devices]
  /\ PluginOf \in [Devices -> Plugins]
  /\ Payloads \subseteq [sensor : Sensors, device : Devices, time : Nat \ {0}, kind : Kinds]
  /\ BatchSize \in Nat \ {0}
  /\ MaxFaults \in Nat

VARIABLES
  pc,        \* where run_consumer() is
  batch,     \* ids of the parsed events in hand (good_ids); bad_ids at "badack"
  valid,     \* the ids still to be written (parsed, then known, then valid_rows)
  sensors,   \* table sensors: the sensors registered
  active,    \* table plugins: those with is_active
  rows,      \* table telemetry: <<time, sensor>> keys
  lastSeen,  \* devices.last_seen; 0 for NULL
  fate,      \* history: what became of each id
  faults     \* number of faults so far

writerVars == <<pc, batch, valid>>
registryVars == <<sensors, active>>
tableVars == <<rows, lastSeen>>
vars == <<streamVars, writerVars, registryVars, tableVars, fate, faults>>

Points == {"down", "read", "badack", "sensors", "devices", "insert", "rowwise",
           "lastseen", "ack"}

Key(i) == <<log[i].time, log[i].sensor>>
Malformed(S) == {i \in S : log[i].kind = "malformed"}
BadIds(S) == {i \in S : log[i].kind = "badid"}

Times == {p.time : p \in Payloads}

\* open: no verdict yet; refused: by parsing or validation; skipped: by the
\* database, in the per-row fallback; stored: its INSERT committed.
Fates == {"open", "refused", "skipped", "stored"}
Mark(S, verdict) == fate' = [i \in Ids |-> IF i \in S THEN verdict ELSE fate[i]]

\* Type invariant: the loop holds only ids it was delivered, and the tables hold
\* only times and sensors that were published.
TypeOK ==
  /\ StreamTypeOK
  /\ pc \in Points
  /\ batch \subseteq 1 .. last
  /\ valid \subseteq batch
  /\ sensors \subseteq Sensors
  /\ active \subseteq Plugins
  /\ rows \subseteq Times \X Sensors
  /\ lastSeen \in [Devices -> Times \cup {0}]
  /\ fate \in [Ids -> Fates]
  /\ faults \in 0 .. MaxFaults

Init ==
  /\ StreamInit
  /\ pc = "down" /\ batch = {} /\ valid = {}
  /\ sensors = {} /\ active = Plugins
  /\ rows = {} /\ lastSeen = [d \in Devices |-> 0]
  /\ fate = [i \in Ids |-> "open"] /\ faults = 0

-----------------------------------------------------------------------------
(* The environment: producers, registration, the plugin switch.             *)

\* A device plugin publishes a reading.
Publish(p) ==
  /\ XAdd(p)
  /\ UNCHANGED <<writerVars, registryVars, tableVars, fate, faults>>

\* The registration consumer has inserted a sensor's row (and, before it, the
\* device's, which the foreign key wants).
RegisterSensor(s) ==
  /\ s \notin sensors
  /\ sensors' = sensors \cup {s}
  /\ UNCHANGED <<streamVars, writerVars, active, tableVars, fate, faults>>

\* Nothing in the code deletes a sensor, but an administrator at the database
\* can, as long as no telemetry row refers to it: the only way to the per-row
\* fallback of write_batch().
DropSensor(s) ==
  /\ s \in sensors
  /\ \A k \in rows : k[2] # s
  /\ sensors' = sensors \ {s}
  /\ UNCHANGED <<streamVars, writerVars, active, tableVars, fate, faults>>

\* update_plugin(): an administrator switches a plugin on or off.
TogglePlugin(p) ==
  /\ active' = IF p \in active THEN active \ {p} ELSE active \cup {p}
  /\ UNCHANGED <<streamVars, writerVars, sensors, tableVars, fate, faults>>

-----------------------------------------------------------------------------
(* run_consumer() and write_batch()                                         *)

\* The loop goes back at the read, or the process is gone; what it held is
\* forgotten, not acknowledged.
Forget(where) == pc' = where /\ batch' = {} /\ valid' = {}

\* The container starts (restart: unless-stopped) and the loop is entered.
Start ==
  /\ pc = "down"
  /\ EnsureConsumerGroup
  /\ pc' = "read"
  /\ UNCHANGED <<batch, valid, registryVars, tableVars, fate, faults>>

\* Go on with the parsed events G: straight back to the loop when there are
\* none, straight to the acknowledgement when write_batch() finds no UUIDs.
ProceedWith(G) ==
  LET parsed == G \ BadIds(G) IN
  /\ pc' = IF G = {} THEN "read" ELSE IF parsed = {} THEN "ack" ELSE "sensors"
  /\ batch' = G
  /\ valid' = parsed

\* read_stream() returns a batch, and partition_telemetry_batch() splits it.
Read ==
  /\ pc = "read"
  /\ XReadGroup(BatchSize)
  /\ LET bad == Malformed(Batch(BatchSize)) IN
     IF bad = {}
     THEN /\ ProceedWith(Batch(BatchSize))
          /\ Mark(BadIds(Batch(BatchSize)), "refused")
     ELSE /\ pc' = "badack" /\ batch' = Batch(BatchSize) /\ valid' = {}
          /\ Mark(bad, "refused")
  /\ UNCHANGED <<registryVars, tableVars, faults>>

\* Mutant of ReadNoGroup: the except clause swallows NOGROUP too.
RetryNoGroup ==
  /\ pc = "read" /\ ~ created
  /\ UNCHANGED vars

\* The group is gone: XREADGROUP answers NOGROUP, which the loop's except
\* clause does not name, so the error ends the task and with it the process.
ReadNoGroup ==
  /\ pc = "read" /\ ~ created
  /\ Forget("down")
  /\ UNCHANGED <<streamVars, registryVars, tableVars, fate, faults>>

\* Unparseable messages are acknowledged at once.
AckBad ==
  /\ pc = "badack"
  /\ XAck(Malformed(batch))
  /\ ProceedWith(batch \ Malformed(batch))
  /\ Mark(BadIds(batch), "refused")
  /\ UNCHANGED <<registryVars, tableVars, faults>>

\* _load_mappings(), first query: the sensors that exist, and their device.
LoadSensors ==
  /\ pc = "sensors"
  /\ valid' = {i \in valid : /\ log[i].sensor \in sensors
                             /\ OwnerOf[log[i].sensor] = log[i].device}
  /\ pc' = "devices"
  /\ UNCHANGED <<streamVars, batch, registryVars, tableVars, fate, faults>>

\* Two events of one device whose timestamps cannot be compared.
MixedZones(S) ==
  \E i, j \in S : log[i].device = log[j].device /\ log[i].kind # log[j].kind

\* _load_mappings(), second query, and the validation that ends with it: the
\* devices whose plugin is active.  A TypeError in the comparison of
\* timestamps is one more exception the loop logs and drops the batch for.
LoadDevices ==
  /\ pc = "devices"
  /\ LET ok == {i \in valid : PluginOf[log[i].device] \in active} IN
     IF MixedZones(ok)
     THEN Forget("read") /\ UNCHANGED fate
     ELSE /\ Mark(batch \ ok, "refused")
          /\ valid' = ok
          /\ pc' = IF ok = {} THEN "ack" ELSE "insert"
          /\ UNCHANGED batch
  /\ UNCHANGED <<streamVars, registryVars, tableVars, faults>>

\* One transaction inserts the ids S, keys already there being skipped.
\* last_seen is next, unless no row was new.
InsertRows(S) ==
  /\ rows' = rows \cup {Key(i) : i \in S}
  /\ pc' = IF {Key(i) : i \in S} \subseteq rows THEN "ack" ELSE "lastseen"

Insertable == {i \in valid : log[i].sensor \in sensors}

\* _insert_rows(): all the rows, or none and the per-row fallback.
Insert ==
  /\ pc = "insert"
  /\ IF Insertable = valid
     THEN InsertRows(valid) /\ Mark(valid, "stored")
     ELSE pc' = "rowwise" /\ UNCHANGED <<rows, fate>>
  /\ UNCHANGED <<streamVars, batch, valid, registryVars, lastSeen, faults>>

\* _insert_rows_individually(): a savepoint per row; rows that violate the
\* foreign key are skipped.  valid keeps them: last_seen counts them still.
InsertIndividually ==
  /\ pc = "rowwise"
  /\ InsertRows(Insertable)
  /\ fate' = [i \in Ids |-> IF i \in Insertable THEN "stored"
                            ELSE IF i \in valid THEN "skipped" ELSE fate[i]]
  /\ UNCHANGED <<streamVars, batch, valid, registryVars, lastSeen, faults>>

\* Mutant of Latest: devices are noted before the event is validated.
LatestUnvalidated(d, t) ==
  LET times == {log[i].time : i \in {j \in batch : log[j].device = d}} IN
  IF times = {} THEN t = 0 ELSE t \in times /\ \A u \in times : u <= t

\* Mutant of Latest: the timestamp that arrived last, for the latest.
LatestArrived(d, t) ==
  LET ids == {i \in valid : log[i].device = d} IN
  IF ids = {} THEN t = 0 ELSE \E i \in ids : t = log[i].time /\ \A j \in ids : j <= i

\* affected_devices: t is the latest timestamp in valid for device d (0: none).
Latest(d, t) ==
  LET times == {log[i].time : i \in {j \in valid : log[j].device = d}} IN
  IF times = {} THEN t = 0 ELSE t \in times /\ \A u \in times : u <= t

\* Mutant of UpdateLastSeen: the UPDATE without its condition on last_seen.
OverwriteLastSeen ==
  /\ pc = "lastseen"
  /\ \E latest \in [Devices -> Times \cup {0}] :
       /\ \A d \in Devices : Latest(d, latest[d])
       /\ lastSeen' = [d \in Devices |-> IF latest[d] # 0 THEN latest[d] ELSE lastSeen[d]]
  /\ pc' = "ack"
  /\ UNCHANGED <<streamVars, batch, valid, registryVars, rows, fate, faults>>

\* _update_last_seen(): never backwards.
UpdateLastSeen ==
  /\ pc = "lastseen"
  /\ \E latest \in [Devices -> Times \cup {0}] :
       /\ \A d \in Devices : Latest(d, latest[d])
       /\ lastSeen' = [d \in Devices |->
                         IF lastSeen[d] < latest[d] THEN latest[d] ELSE lastSeen[d]]
  /\ pc' = "ack"
  /\ UNCHANGED <<streamVars, batch, valid, registryVars, rows, fate, faults>>

AckGood ==
  /\ pc = "ack"
  /\ XAck(batch)
  /\ Forget("read")
  /\ UNCHANGED <<registryVars, tableVars, fate, faults>>

-----------------------------------------------------------------------------
(* Faults                                                                   *)

Fault == faults < MaxFaults /\ faults' = faults + 1

\* Killed, or out of memory, or an uncaught error (an ack of bad_ids that
\* fails is outside the try).
Crash ==
  /\ Fault /\ pc # "down"
  /\ Forget("down")
  /\ UNCHANGED <<streamVars, registryVars, tableVars, fate>>

\* Redis served the XREADGROUP and the reply was lost: a connection or timeout
\* error, five seconds' sleep, and the next batch.
ReadReplyLost ==
  /\ Fault /\ pc = "read"
  /\ XReadGroup(BatchSize)
  /\ UNCHANGED <<writerVars, registryVars, tableVars, fate>>

\* Mutant of WriteFails: the acknowledgement sits in a finally clause.
WriteFailsAcking ==
  /\ Fault /\ pc \in {"sensors", "devices", "insert", "rowwise", "lastseen", "ack"}
  /\ XAck(batch)
  /\ Forget("read")
  /\ UNCHANGED <<registryVars, tableVars, fate>>

\* A statement of write_batch(), or the ack after it, raises: the exception
\* is logged and the batch left unacknowledged.
WriteFails ==
  /\ Fault /\ pc \in {"sensors", "devices", "insert", "rowwise", "lastseen", "ack"}
  /\ Forget("read")
  /\ UNCHANGED <<streamVars, registryVars, tableVars, fate>>

\* The INSERT commits and its reply is lost: stored, though write_batch() raises.
InsertReplyLost ==
  /\ Fault /\ pc = "insert" /\ Insertable = valid
  /\ rows' = rows \cup {Key(i) : i \in valid}
  /\ Mark(valid, "stored")
  /\ Forget("read")
  /\ UNCHANGED <<streamVars, registryVars, lastSeen>>

StreamLost ==
  /\ Fault
  /\ LoseStream
  /\ UNCHANGED <<writerVars, registryVars, tableVars, fate>>

-----------------------------------------------------------------------------
Environment ==
  \/ \E p \in Payloads : Publish(p)
  \/ \E s \in Sensors : RegisterSensor(s) \/ DropSensor(s)
  \/ \E p \in Plugins : TogglePlugin(p)

WriteBatch ==
  \/ LoadSensors \/ LoadDevices
  \/ Insert \/ InsertIndividually \/ UpdateLastSeen

RunConsumer ==
  \/ Start \/ Read \/ ReadNoGroup \/ AckBad
  \/ WriteBatch
  \/ AckGood

Faults == Crash \/ ReadReplyLost \/ WriteFails \/ InsertReplyLost \/ StreamLost

Next == Environment \/ RunConsumer \/ Faults

Spec == Init /\ [][Next]_vars

(***************************************************************************)
(* The event loop keeps running a coroutine that can run, and the          *)
(* container is restarted: weak fairness of the loop, none of the          *)
(* environment.                                                            *)
(***************************************************************************)
FairSpec == Spec /\ WF_vars(RunConsumer)

\* The same with failing writes for the only faults.
FailingWritesSpec ==
  Init /\ [][Environment \/ RunConsumer \/ WriteFails]_vars /\ WF_vars(RunConsumer)

-----------------------------------------------------------------------------
(* Properties                                                               *)

\* It was turned away, or stored and its row is in the table.
Judged(i) ==
  \/ fate[i] \in {"refused", "skipped"}
  \/ fate[i] = "stored" /\ Key(i) \in rows

\* Delivered, not acknowledged, and in nobody's hands.
Stranded(i) == i \in pel \ batch

(***************************************************************************)
(* What run_consumer() acknowledged was dealt with: it was stored and its  *)
(* row is in the table, or it was refused, or the database would not have  *)
(* it.  No order of failures makes an XACK overtake the INSERT.            *)
(***************************************************************************)
AckedWasHandled == \A i \in Acked : Judged(i)

(***************************************************************************)
(* Why: what each point of the loop knows of the batch in hand.  With it   *)
(* AckedWasHandled is inductive.                                           *)
(***************************************************************************)
HeldIsJudged ==
  /\ pc \in {"down", "read"} => batch = {}
  /\ pc = "badack" => \A i \in Malformed(batch) : Judged(i)
  /\ pc \in {"insert", "rowwise"} => \A i \in batch \ valid : Judged(i)
  /\ pc \in {"lastseen", "ack"} => \A i \in batch : Judged(i)

(***************************************************************************)
(* devices.last_seen is the time of an event of that device that passed    *)
(* the checks, and whose row is in the table or was skipped by the per-row *)
(* fallback: write_batch() counts the skipped ones too.  It is never the   *)
(* time of an event that was refused, nor of one whose batch was not       *)
(* written, whichever statement or reply failed.                           *)
(***************************************************************************)
LastSeenBacked ==
  \A d \in Devices : lastSeen[d] # 0 =>
    \E i \in Published :
      /\ log[i].device = d /\ log[i].time = lastSeen[d]
      /\ \/ fate[i] = "stored" /\ Key(i) \in rows
         \/ fate[i] = "skipped"

(***************************************************************************)
(* As long as nothing has failed, last_seen is at or past every row of the *)
(* device, but for the moment between the two transactions.                *)
(***************************************************************************)
LastSeenCoversRows ==
  faults = 0 /\ pc # "lastseen" =>
    \A k \in rows : k[1] <= lastSeen[OwnerOf[k[2]]]

\* Events that arrive out of order never turn last_seen back.
LastSeenNeverGoesBack ==
  [][\A d \in Devices : lastSeen[d] <= lastSeen'[d]]_vars

Done == {i \in Ids : fate[i] # "open"}   \* dealt with, one way or another

\* A lost stream takes all of the batch in hand or none of it.
BatchWhole == batch \subseteq base + 1 .. last \/ batch \subseteq 1 .. base

\* The ingestor keeps the consumer's contract, whatever fails.
Contract == INSTANCE AtMostOnce WITH
  queued <- Waiting,
  taken  <- 1 .. last,
  held   <- batch,
  done   <- Done,
  acked  <- Acked

ImplementsContract == Contract!Spec

(***************************************************************************)
(* No entry is left in the stream: each one published is judged and        *)
(* acknowledged in the end, unless the stream is lost or the entry is      *)
(* stranded by a failure.                                                  *)
(***************************************************************************)
EveryEntryResolved ==
  \A i \in Ids :
    i \in Published ~> \/ i <= base \/ Stranded(i)
                      \/ (i <= last /\ i \notin pel /\ fate[i] # "open")

(***************************************************************************)
(* The comment in run_consumer(): a batch whose write failed is not        *)
(* acknowledged, so its messages are redelivered on the next XREADGROUP.   *)
(***************************************************************************)
FailedBatchRedelivered ==
  \A i \in Ids : Stranded(i) /\ fate[i] = "open" ~> i \in batch \/ i <= base
=============================================================================
