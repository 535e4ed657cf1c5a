----------------------------- MODULE AlertEngine -----------------------------
(***************************************************************************)
(* The alerts worker: run_engine() evaluates the rules of a sensor on each *)
(* of its events, run_no_data_scanner() looks for silent sensors, and both *)
(* hand their fires to dispatch_fires(), which adds an alert_history row   *)
(* per fire to the open transaction, publishes to the dispatch stream and  *)
(* commits at the end.  The two are tasks of one process: they interleave  *)
(* at every await, share the marks of liveness.py, and die together.       *)
(*                                                                         *)
(* Time is a counter of ticks; a step takes none.  The telemetry table     *)
(* belongs to the ingestor, which reads the same stream at its own pace.   *)
(***************************************************************************)
EXTENDS RedisStream, FiniteSets

CONSTANTS
  Sensors, Rules, Channels,
  SensorOf,    \* rule -> sensor
  RuleType,    \* rule -> instant | aggregated | no_data
  Condition,   \* rule -> the comparison of an instant or aggregated rule
  Threshold,   \* rule -> its threshold
  Duration,    \* rule -> duration_seconds, in ticks
  Cooldown,    \* rule -> cooldown_seconds, in ticks
  LinkedTo,    \* rule -> the channels linked to it
  BatchSize,   \* count=50 in the code
  MaxTime, MaxEdits, MaxFaults   \* bounds on ticks, switches and faults

Times == 1 .. MaxTime
Conditions == {"gt", "lt", "gte", "lte", "eq", "neq"}
Actors == {"engine", "scanner"}

ASSUME AlertAssumption ==
  /\ SensorOf \in [Rules -> Sensors]
  /\ RuleType \in [Rules -> {"instant", "aggregated", "no_data"}]
  /\ Condition \in [Rules -> Conditions] /\ Threshold \in [Rules -> Nat]
  /\ Duration \in [Rules -> Nat] /\ Cooldown \in [Rules -> Nat]
  /\ LinkedTo \in [Rules -> SUBSET Channels]
  /\ Payloads \subseteq [sensor : Sensors, value : Nat, time : Times, parses : BOOLEAN]
  /\ BatchSize \in Nat \ {0} /\ MaxTime \in Nat \ {0}
  /\ MaxEdits \in Nat /\ MaxFaults \in Nat

VARIABLES
  now,            \* the clock
  enabled,        \* alert_rules with is_active
  live,           \* channels active, of an active plugin
  edits,          \* switches of rules and channels so far
  ingested,       \* ids whose row is in the telemetry table
  epc, spc,       \* where the engine and the scanner are
  batch,          \* ids of the batch in the engine's hands
  todo,           \* those it has not processed yet
  fires,          \* actor -> decisions dispatch_fires() has yet to go through
  open,           \* actor -> history rows of its open transaction
  history,        \* table alert_history
  sent,           \* dispatch events published: a fire and a channel
  scannerStart,   \* liveness._scanner_start_time (0: None)
  lastEvent,      \* liveness._last_event_processed_at (0: None)
  lastStart,      \* history variable: when the worker last started (0: never)
  done,           \* history variable: ids the engine has dealt with
  faults          \* number of faults so far

adminVars == <<enabled, live, edits>>
engineVars == <<epc, batch, todo, done>>
scannerVars == <<spc, scannerStart, lastStart>>
dispatchVars == <<fires, open, history, sent>>
vars == <<streamVars, now, adminVars, ingested, engineVars, lastEvent, scannerVars,
          dispatchVars, faults>>

Fire == [rule : Rules, at : Times]
Malformed(S) == {i \in S : ~ log[i].parses}

\* Type invariant: the engine holds only ids it was delivered, the ingestor has
\* written only published events, and no mark lies in the future.
TypeOK ==
  /\ StreamTypeOK
  /\ now \in Times /\ edits \in 0 .. MaxEdits /\ faults \in 0 .. MaxFaults
  /\ enabled \subseteq Rules /\ live \subseteq Channels
  /\ ingested \subseteq Published
  /\ epc \in {"down", "read", "badack", "event", "dispatch", "ack"}
  /\ spc \in {"down", "starting", "idle", "dispatch"}
  /\ batch \subseteq 1 .. last /\ todo \subseteq batch /\ done \subseteq 1 .. last
  /\ fires \in [Actors -> SUBSET Fire] /\ open \in [Actors -> SUBSET Fire]
  /\ history \subseteq Fire
  /\ sent \subseteq Fire \X Channels
  /\ scannerStart \in 0 .. now /\ lastEvent \in 0 .. now
  /\ lastStart \in 0 .. now

NoFires == [a \in Actors |-> {}]

Init ==
  /\ StreamInit
  /\ now = 1 /\ enabled = Rules /\ live = Channels /\ edits = 0
  /\ ingested = {} /\ epc = "down" /\ spc = "down" /\ batch = {} /\ todo = {}
  /\ fires = NoFires /\ open = NoFires /\ history = {} /\ sent = {}
  /\ scannerStart = 0 /\ lastEvent = 0 /\ lastStart = 0 /\ done = {} /\ faults = 0

-----------------------------------------------------------------------------
(* The environment: time, producers, the ingestor, the administrator.       *)

Tick ==
  /\ now < MaxTime
  /\ now' = now + 1
  /\ UNCHANGED <<streamVars, adminVars, ingested, engineVars, lastEvent, scannerVars,
                 dispatchVars, faults>>

Publish(p) ==
  /\ p.time = now
  /\ XAdd(p)
  /\ UNCHANGED <<now, adminVars, ingested, engineVars, lastEvent, scannerVars,
                 dispatchVars, faults>>

\* The ingestor's INSERT of an event commits: any time after its XADD, or never.
IngestorWrites(i) ==
  /\ i \in Published \ ingested /\ log[i].parses
  /\ ingested' = ingested \cup {i}
  /\ UNCHANGED <<streamVars, now, adminVars, engineVars, lastEvent, scannerVars,
                 dispatchVars, faults>>

\* The alerts page switches a rule or a channel on or off.
Switch ==
  /\ edits < MaxEdits /\ edits' = edits + 1
  /\ \/ \E r \in Rules : /\ enabled' = (enabled \ {r}) \cup ({r} \ enabled)
                         /\ UNCHANGED live
     \/ \E c \in Channels : /\ live' = (live \ {c}) \cup ({c} \ live)
                            /\ UNCHANGED enabled
  /\ UNCHANGED <<streamVars, now, ingested, engineVars, lastEvent, scannerVars,
                 dispatchVars, faults>>

-----------------------------------------------------------------------------
(* Evaluation                                                               *)

\* compare(); both sides are present here.
Compare(cond, v, t) ==
  CASE cond = "gt"  -> v > t
    [] cond = "lt"  -> v < t
    [] cond = "gte" -> v >= t
    [] cond = "lte" -> v <= t
    [] cond = "eq"  -> v = t
    [] cond = "neq" -> v # t

\* Mutant of InCooldown: only fires that reached a channel count.
InCooldownIfSent(r) ==
  \E m \in sent : m[1] \in history /\ m[1].rule = r /\ now < m[1].at + Cooldown[r]

\* is_in_cooldown(): the latest committed fire is less than a cooldown old.
InCooldown(r) == \E h \in history : h.rule = r /\ now < h.at + Cooldown[r]

\* The rows _aggregate_value() looks at.
Window(r) ==
  {i \in ingested : /\ log[i].sensor = SensorOf[r]
                    /\ log[i].time + Duration[r] >= now /\ log[i].time <= now}

\* evaluate(), with max() for the aggregate; no row, no value, no fire.
Evaluate(r, i) ==
  /\ ~ InCooldown(r)
  /\ \/ /\ RuleType[r] = "instant"
        /\ Compare(Condition[r], log[i].value, Threshold[r])
     \/ /\ RuleType[r] = "aggregated"
        /\ \E m \in Window(r) : /\ \A j \in Window(r) : log[j].value <= log[m].value
                                /\ Compare(Condition[r], log[m].value, Threshold[r])

\* The decisions of _process_event() for entry i.
Decisions(i) ==
  {r \in enabled : SensorOf[r] = log[i].sensor /\ Evaluate(r, i)}

\* Mutant of ShouldFire: without the grace after a restart.
ShouldFireNoGrace(r) ==
  /\ r \in enabled /\ RuleType[r] = "no_data" /\ Duration[r] > 0
  /\ \E i \in ingested : log[i].sensor = SensorOf[r]
  /\ \A i \in ingested : log[i].sensor = SensorOf[r] => log[i].time + Duration[r] <= now
  /\ lastEvent # 0 /\ now < lastEvent + Duration[r]
  /\ ~ InCooldown(r)

\* The guards of _scan_once() for rule r.
ShouldFire(r) ==
  /\ r \in enabled /\ RuleType[r] = "no_data" /\ Duration[r] > 0
  /\ \E i \in ingested : log[i].sensor = SensorOf[r]
  /\ \A i \in ingested : log[i].sensor = SensorOf[r] => log[i].time + Duration[r] <= now
  /\ scannerStart # 0 /\ scannerStart + Duration[r] <= now
  /\ lastEvent # 0 /\ now < lastEvent + Duration[r]
  /\ ~ InCooldown(r)

FiresNow(R) == {[rule |-> r, at |-> now] : r \in R}

-----------------------------------------------------------------------------
(* dispatch_fires(), in the session of the engine or of the scanner         *)

\* Mutant of FinishEvent: returns from the loop after the first event.
FinishBatch ==
  /\ todo' = {} /\ done' = done \cup todo
  /\ epc' = "ack"
  /\ UNCHANGED batch

\* The event in hand, the lowest id left, is finished.
FinishEvent ==
  \E i \in todo :
    /\ \A j \in todo : i <= j
    /\ todo' = todo \ {i} /\ done' = done \cup {i}
    /\ epc' = IF todo = {i} THEN "ack" ELSE "event"
    /\ UNCHANGED batch

\* Actor a leaves dispatch_fires(), by its end or by an exception.
Leave(a) ==
  \/ a = "engine" /\ FinishEvent /\ UNCHANGED scannerVars
  \/ a = "scanner" /\ spc' = "idle" /\ UNCHANGED <<scannerStart, lastStart, engineVars>>

InDispatch(a) == IF a = "engine" THEN epc = "dispatch" ELSE spc = "dispatch"

\* Mutant of DispatchFire: the xadd has slipped out of the loop over channels.
DispatchFireOnce(a) ==
  /\ InDispatch(a)
  /\ \E f \in fires[a] :
       /\ fires' = [fires EXCEPT ![a] = @ \ {f}]
       /\ open' = [open EXCEPT ![a] = @ \cup {f}]
       /\ \E c \in LinkedTo[f.rule] \cap live : sent' = sent \cup {<<f, c>>}
  /\ UNCHANGED <<streamVars, now, adminVars, ingested, engineVars, lastEvent, scannerVars,
                 history, faults>>

\* One pass of the loop over fires: the row is added to the session, and an
\* event published per channel that is active now, or none.
DispatchFire(a) ==
  /\ InDispatch(a)
  /\ \E f \in fires[a] :
       /\ fires' = [fires EXCEPT ![a] = @ \ {f}]
       /\ open' = [open EXCEPT ![a] = @ \cup {f}]
       /\ sent' = sent \cup ({f} \X (LinkedTo[f.rule] \cap live))
  /\ UNCHANGED <<streamVars, now, adminVars, ingested, engineVars, lastEvent, scannerVars,
                 history, faults>>

\* Mutant of Commit: returns, for continue, at a fire without channels, and
\* the transaction is rolled back.
CommitUnlessUnlinked(a) ==
  /\ InDispatch(a) /\ fires[a] = {}
  /\ history' = IF \E f \in open[a] : LinkedTo[f.rule] = {} THEN history
                ELSE history \cup open[a]
  /\ open' = [open EXCEPT ![a] = {}]
  /\ Leave(a)
  /\ UNCHANGED <<streamVars, now, adminVars, ingested, lastEvent, fires, sent, faults>>

\* session.commit() at the end of dispatch_fires().
Commit(a) ==
  /\ InDispatch(a) /\ fires[a] = {}
  /\ history' = history \cup open[a]
  /\ open' = [open EXCEPT ![a] = {}]
  /\ Leave(a)
  /\ UNCHANGED <<streamVars, now, adminVars, ingested, lastEvent, fires, sent, faults>>

-----------------------------------------------------------------------------
(* run_engine()                                                             *)

\* The container starts both tasks of the TaskGroup.
StartWorker ==
  /\ epc = "down"
  /\ EnsureConsumerGroup
  /\ epc' = "read" /\ spc' = "starting" /\ lastStart' = now
  /\ UNCHANGED <<now, adminVars, ingested, batch, todo, done, lastEvent, scannerStart,
                 dispatchVars, faults>>

\* Mutant of ProceedWith: the good messages are acknowledged at once.
AckFirst(G) ==
  /\ epc' = IF G = {} THEN "read" ELSE "ack"
  /\ batch' = G /\ todo' = {}
  /\ lastEvent' = IF G = {} THEN lastEvent ELSE now

\* Go on with the parsed events G, and mark the pipeline alive if there are any.
ProceedWith(G) ==
  /\ epc' = IF G = {} THEN "read" ELSE "event"
  /\ batch' = G /\ todo' = G
  /\ lastEvent' = IF G = {} THEN lastEvent ELSE now

EngineRead ==
  /\ epc = "read"
  /\ XReadGroup(BatchSize)
  /\ LET bad == Malformed(Batch(BatchSize)) IN
     /\ done' = done \cup bad
     /\ IF bad = {}
        THEN ProceedWith(Batch(BatchSize))
        ELSE /\ epc' = "badack" /\ batch' = Batch(BatchSize)
             /\ UNCHANGED <<todo, lastEvent>>
  /\ UNCHANGED <<now, adminVars, ingested, scannerVars, dispatchVars, faults>>

EngineAckBad ==
  /\ epc = "badack"
  /\ XAck(Malformed(batch))
  /\ ProceedWith(batch \ Malformed(batch))
  /\ UNCHANGED <<now, adminVars, ingested, done, scannerVars, dispatchVars, faults>>

\* _process_event() for the next event, up to dispatch_fires().
ProcessEvent ==
  /\ epc = "event"
  /\ \E i \in todo :
       /\ \A j \in todo : i <= j
       /\ IF Decisions(i) = {}
          THEN FinishEvent /\ UNCHANGED fires
          ELSE /\ fires' = [fires EXCEPT !["engine"] = FiresNow(Decisions(i))]
               /\ epc' = "dispatch"
               /\ UNCHANGED <<batch, todo, done>>
  /\ UNCHANGED <<streamVars, now, adminVars, ingested, lastEvent, scannerVars, open,
                 history, sent, faults>>

EngineAck ==
  /\ epc = "ack"
  /\ XAck(batch)
  /\ epc' = "read" /\ batch' = {}
  /\ UNCHANGED <<now, adminVars, ingested, todo, done, lastEvent, scannerVars,
                 dispatchVars, faults>>

\* The process ends: the open transactions are rolled back, and what the two
\* tasks knew is gone with liveness.py's marks.
Die ==
  /\ epc' = "down" /\ spc' = "down"
  /\ batch' = {} /\ todo' = {} /\ scannerStart' = 0 /\ lastEvent' = 0
  /\ fires' = NoFires /\ open' = NoFires
  /\ UNCHANGED <<now, adminVars, ingested, done, lastStart, history, sent>>

\* Mutant of EngineReadNoGroup: the loop's except clause swallows NOGROUP too.
EngineRetryNoGroup ==
  /\ epc = "read" /\ ~ created
  /\ UNCHANGED vars

\* NOGROUP is no connection error: it ends the engine, and the TaskGroup
\* takes the scanner down with it.
EngineReadNoGroup ==
  /\ epc = "read" /\ ~ created
  /\ Die
  /\ UNCHANGED <<streamVars, faults>>

-----------------------------------------------------------------------------
(* run_no_data_scanner()                                                    *)

StartScanner ==
  /\ spc = "starting"
  /\ spc' = "idle" /\ scannerStart' = now
  /\ UNCHANGED <<streamVars, now, adminVars, ingested, engineVars, lastEvent, lastStart,
                 dispatchVars, faults>>

\* A tick of the scanner, up to dispatch_fires().
Scan ==
  /\ spc = "idle"
  /\ LET silent == {r \in Rules : ShouldFire(r)} IN
     /\ fires' = [fires EXCEPT !["scanner"] = FiresNow(silent)]
     /\ spc' = IF silent = {} THEN "idle" ELSE "dispatch"
  /\ UNCHANGED <<streamVars, now, adminVars, ingested, engineVars, lastEvent, scannerStart,
                 lastStart, open, history, sent, faults>>

-----------------------------------------------------------------------------
(* Faults                                                                   *)

Fault == faults < MaxFaults /\ faults' = faults + 1

\* Killed; or an ack fails, which is outside the engine's try.
Crash ==
  /\ Fault /\ epc # "down"
  /\ Die
  /\ UNCHANGED streamVars

\* Redis served the XREADGROUP, and the engine sees a connection error.
ReadReplyLost ==
  /\ Fault /\ epc = "read"
  /\ XReadGroup(BatchSize)
  /\ UNCHANGED <<now, adminVars, ingested, engineVars, lastEvent, scannerVars, dispatchVars>>

\* A query of _process_event() raises before anything is dispatched.
EventFails ==
  /\ Fault /\ epc = "event"
  /\ FinishEvent
  /\ UNCHANGED <<streamVars, now, adminVars, ingested, lastEvent, scannerVars, dispatchVars>>

\* What has been published when dispatch_fires() raises: all of the fires gone
\* through, and some channels of the one it was at.
PartlySent(a) ==
  \/ UNCHANGED sent
  \/ \E f \in fires[a] : \E C \in SUBSET (LinkedTo[f.rule] \cap live) :
       sent' = sent \cup ({f} \X C)

\* Mutant of DispatchFails: the scanner's try is around its loop, not in it.
DispatchFailsForGood(a) ==
  /\ Fault /\ InDispatch(a)
  /\ PartlySent(a)
  /\ fires' = [fires EXCEPT ![a] = {}] /\ open' = [open EXCEPT ![a] = {}]
  /\ \/ a = "engine" /\ Leave(a)
     \/ a = "scanner" /\ spc' = "down" /\ UNCHANGED <<scannerStart, lastStart, engineVars>>
  /\ UNCHANGED <<streamVars, now, adminVars, ingested, lastEvent, history>>

\* A statement, an XADD or the commit raises: the session rolls back, the
\* error is logged, the engine goes on with the next event and the scanner
\* with the next tick.  What was published stays published.
DispatchFails(a) ==
  /\ Fault /\ InDispatch(a)
  /\ PartlySent(a)
  /\ fires' = [fires EXCEPT ![a] = {}] /\ open' = [open EXCEPT ![a] = {}]
  /\ Leave(a)
  /\ UNCHANGED <<streamVars, now, adminVars, ingested, lastEvent, history>>

StreamLost ==
  /\ Fault
  /\ LoseStream
  /\ UNCHANGED <<now, adminVars, ingested, engineVars, lastEvent, scannerVars, dispatchVars>>

-----------------------------------------------------------------------------
Environment ==
  \/ Tick \/ Switch
  \/ \E p \in Payloads : Publish(p)
  \/ \E i \in Ids : IngestorWrites(i)

Engine ==
  \/ EngineRead \/ EngineReadNoGroup \/ EngineAckBad \/ ProcessEvent \/ EngineAck
  \/ DispatchFire("engine") \/ Commit("engine")

Scanner == StartScanner \/ Scan \/ DispatchFire("scanner") \/ Commit("scanner")

Faults ==
  \/ Crash \/ ReadReplyLost \/ EventFails \/ StreamLost
  \/ \E a \in Actors : DispatchFails(a)

Next == Environment \/ StartWorker \/ Engine \/ Scanner \/ Faults

Spec == Init /\ [][Next]_vars

(***************************************************************************)
(* The container is restarted, and the event loop runs each task that can  *)
(* run.  Nothing is assumed of producers, ingestor or clock.               *)
(***************************************************************************)
FairSpec ==
  Spec /\ WF_vars(StartWorker) /\ WF_vars(Engine) /\ WF_vars(Scanner)

-----------------------------------------------------------------------------
(* Properties                                                               *)

\* Two rows of one rule in alert_history are at least its cooldown apart,
\* however the tasks interleave, fail or restart.
CooldownRespected ==
  \A g, h \in history :
    g.rule = h.rule /\ g.at < h.at => g.at + Cooldown[g.rule] <= h.at

(***************************************************************************)
(* A fire that made it into alert_history was published to every channel   *)
(* of its rule, whatever failed on the way (channels that are switched     *)
(* meanwhile aside): dispatch_fires() commits last.                        *)
(***************************************************************************)
RecordedMeansSent ==
  edits = 0 => \A h \in history : \A c \in LinkedTo[h.rule] : <<h, c>> \in sent

\* As long as nothing failed, what was published is in alert_history, or in
\* a transaction about to be committed.
SentMeansRecorded ==
  faults = 0 => \A m \in sent : m[1] \in history \cup open["engine"] \cup open["scanner"]

(***************************************************************************)
(* As long as nothing failed and no rule was switched, an event past the   *)
(* threshold of an instant rule is covered, once processed, by a fire of   *)
(* that rule: its own, or one whose cooldown it fell into.                 *)
(***************************************************************************)
InstantAlertRaised ==
  faults = 0 /\ edits = 0 =>
    \A i \in done, r \in Rules :
      /\ log[i].parses /\ SensorOf[r] = log[i].sensor
      /\ RuleType[r] = "instant" /\ Compare(Condition[r], log[i].value, Threshold[r])
      => \E h \in history :
           /\ h.rule = r
           /\ log[i].time <= h.at \/ log[i].time < h.at + Cooldown[r]

\* No no_data row is committed whose window reaches back over a start of the
\* worker: a restart cannot mass-fire on silence it did not watch.
GraceRespected ==
  [][\A h \in history' \ history : RuleType[h.rule] = "no_data" =>
       lastStart + Duration[h.rule] <= h.at]_vars

\* Why: the loop leaves a batch only when it is through with it.
BatchWorkedOff == epc \notin {"event", "dispatch"} => todo = {}

\* Why: no task survives the other.
TasksDieTogether == epc = "down" => spc = "down"

(***************************************************************************)
(* Why the rows hold.  What an actor has decided or written, it did in one    *)
(* pass, out of reach of every committed fire of the same rule; and a rule *)
(* belongs to one actor alone, so the other cannot commit in between.      *)
(***************************************************************************)
InHand(a) == fires[a] \cup open[a]

DecidedOutOfCooldown ==
  \A a \in Actors :
    /\ ~ InDispatch(a) => InHand(a) = {}
    /\ \A f \in InHand(a) :
         /\ RuleType[f.rule] = "no_data" <=> a = "scanner"
         /\ \A g \in InHand(a) : g.at = f.at
         /\ \A h \in history : h.rule = f.rule => h.at + Cooldown[f.rule] <= f.at

\* Why: a row is published before it joins the open transaction.
OpenWasSent ==
  edits = 0 =>
    /\ live = Channels
    /\ \A a \in Actors : \A f \in open[a] : \A c \in LinkedTo[f.rule] : <<f, c>> \in sent

\* Why: without a fault the group is there, and no transaction is rolled back.
GroupThere == faults = 0 /\ epc # "down" => created

\* Why: the scanner marks its start before its first scan, and decides only on
\* windows that lie after that mark.
ScansAfterStart ==
  /\ spc \in {"idle", "dispatch"} => lastStart <= scannerStart
  /\ \A f \in InHand("scanner") : lastStart + Duration[f.rule] <= f.at

\* The engine keeps the consumer's contract with the telemetry stream.
Contract == INSTANCE AtMostOnce WITH
  queued <- Waiting,
  taken  <- 1 .. last,
  held   <- batch,
  acked  <- Acked

ImplementsContract == Contract!Spec

(***************************************************************************)
(* A silence the scanner is entitled to report is reported, and thereby in *)
(* cooldown, unless the silence ends, the rule is switched off, or the     *)
(* pipeline or the worker stops; a failed tick does not stop it.           *)
(***************************************************************************)
SilenceReported == \A r \in Rules : ShouldFire(r) ~> ~ ShouldFire(r)

(***************************************************************************)
(* Every event is dealt with in the end, and acknowledged, unless its      *)
(* stream is lost or a failure strands it, delivered and in nobody's       *)
(* hands.  A lost group does not stop the engine for good: NOGROUP ends    *)
(* the worker, and its next start makes the group anew.                    *)
(***************************************************************************)
EveryEventHandled ==
  \A i \in Ids :
    i \in Published ~> \/ i <= base \/ i \in pel \ batch
                       \/ i <= last /\ i \notin pel /\ i \in done

(***************************************************************************)
(* README: no_data fires when the rule's sensor has produced no telemetry  *)
(* within duration_seconds, and a stalled pipeline does not look like a    *)
(* silent sensor.                                                          *)
(***************************************************************************)
NoFalseSilence ==
  \A h \in history : RuleType[h.rule] = "no_data" =>
    ~ \E i \in Published : /\ log[i].sensor = SensorOf[h.rule]
                           /\ log[i].parses
                           /\ log[i].time <= h.at
                           /\ h.at < log[i].time + Duration[h.rule]

\* README: re-fires are suppressed until the cooldown has elapsed since the
\* last fire; so no channel is sent two alerts of a rule within its cooldown.
NoRepeatWithinCooldown ==
  \A m, n \in sent :
    m[1].rule = n[1].rule /\ m[2] = n[2] /\ m[1].at < n[1].at
      => m[1].at + Cooldown[m[1].rule] <= n[1].at
=============================================================================
